---- MODULE Spec2Model ----
(***************************************************************************)
(* Model of the concurrent, resumable download engine of edx_downloader:   *)
(* DownloadManager (download_manager.py) and the shutdown flag of          *)
(* EdxDownloaderApp (app.py).                                              *)
(*                                                                         *)
(* One behaviour is one DownloadManager: download_course runs one asyncio  *)
(* task per video behind download_semaphore, process_download_queue drains *)
(* the priority queue through download_video_with_retry behind the same    *)
(* semaphore.  A step of the model is the code an asyncio task runs        *)
(* between two suspension points (semaphore acquire, HTTP request, chunk   *)
(* read, backoff sleep).  Files hold byte offsets of the remote content    *)
(* (byte i of the content is the number i), chunks are one byte long.      *)
(***************************************************************************)
EXTENDS Integers, Sequences, FiniteSets, TLC

\* ---------------------------------------------------------------- bounds
MaxConcurrent == 2   \* largest options.concurrent_downloads tried
MaxRetries    == 1   \* largest retry_config.max_retries tried
MaxSize       == 2   \* largest content size in bytes (= chunks)
MaxQueueAdds  == 2   \* add_to_download_queue calls per behaviour
MaxFound      == 2   \* most records one extraction strategy returns
MaxBlocks     == 2   \* most blocks of a course outline
MaxEncoded    == 2   \* most entries of an encoded_videos map
MaxAffix      == 2   \* most characters before and after the run of a long name
MaxBackoffRetries == 3   \* largest max_retries of a backoff schedule
MaxDelay      == 4   \* largest max_delay of a RetryConfig, in units of time
MaxTicks      == 3   \* advances of the clock an API client sees
MaxRequests   == 3   \* _make_request calls of an API client

\* ----------------------------------------------------- program constants
MaxFilenameLen == 200

\* A path holds no file, or a file with its bytes
NoFile     == [exists |-> FALSE, data |-> <<>>]
File(data) == [exists |-> TRUE, data |-> data]
FileSize(f) == Len(f.data)

None == "None"

\* ------------------------------------------------------- pure helpers
Range(s) == {s[i] : i \in DOMAIN s}

\* The first n bytes of the remote content.
Content(n) == [i \in 1..n |-> i]

\* Bytes lo+1 .. hi of the remote content.
Slice(lo, hi) == [i \in 1..(IF hi > lo THEN hi - lo ELSE 0) |-> lo + i]

RECURSIVE SumSizes(_)
SumSizes(vs) == IF vs = <<>> THEN 0 ELSE Head(vs).size + SumSizes(Tail(vs))

InvalidChars == {"<", ">", ":", "\"", "/", "\\", "|", "?", "*"}

ReplaceInvalid(s) == [i \in DOMAIN s |-> IF s[i] \in InvalidChars THEN "_" ELSE s[i]]

RECURSIVE LStrip(_)
LStrip(s) == IF s # <<>> /\ Head(s) \in {" ", "."} THEN LStrip(Tail(s)) ELSE s

RECURSIVE RStrip(_)
RStrip(s) == IF s # <<>> /\ s[Len(s)] \in {" ", "."}
             THEN RStrip(SubSeq(s, 1, Len(s) - 1)) ELSE s

\* (variant) the name is stripped before it is cut to MaxFilenameLen characters
_sanitize_filenameStripFirst(filename) ==
    LET r == ReplaceInvalid(filename)
        u == RStrip(LStrip(r))
        t == IF Len(u) > MaxFilenameLen THEN SubSeq(u, 1, MaxFilenameLen) ELSE u
    IN  IF t = <<>> THEN <<"v", "i", "d", "e", "o">> ELSE t

\* DownloadManager._sanitize_filename
_sanitize_filename(filename) ==
    LET r == ReplaceInvalid(filename)
        t == IF Len(r) > MaxFilenameLen THEN SubSeq(r, 1, MaxFilenameLen) ELSE r
        u == RStrip(LStrip(t))
    IN  IF u = <<>> THEN <<"v", "i", "d", "e", "o">> ELSE u

\* VideoInfo.filename: re.sub(invalid, '_', title) + "." + format
filename(video) == ReplaceInvalid(video.title) \o <<".">> \o <<video.format>>

\* DownloadManager._create_safe_filename (video.filename is never empty)
_create_safe_filename(video) == _sanitize_filename(filename(video))

\* output_dir / filename
FilePath(dir, video) == <<dir, _create_safe_filename(video)>>


\* (variant) the hash also covers the id of the video
video_hash_with_id(video) == video.url \o <<":">> \o video.title \o <<":">> \o <<video.id>>

\* The text hashed by _is_duplicate_video / _track_downloaded_video:
\* f"{video.url}:{video.title}" (md5 taken as injective on it).
video_hash(video) == video.url \o <<":">> \o video.title

\* ------------------------------------------------------------ priority heap

\* (variant) the comparison of a plain min-heap: lower priority sorts first
ItemLtAscending(a, b) == a.priority < b.priority

\* DownloadQueueItem.__lt__: higher priority sorts first
ItemLt(a, b) == a.priority > b.priority

\* heapq._siftdown on 0-based positions (heap[pos] is h[pos + 1])
RECURSIVE SiftDown(_, _, _, _)
SiftDown(h, startpos, pos, newitem) ==
    IF pos > startpos
    THEN LET parentpos == (pos - 1) \div 2
             parent    == h[parentpos + 1]
         IN  IF ItemLt(newitem, parent)
             THEN SiftDown([h EXCEPT ![pos + 1] = parent], startpos, parentpos, newitem)
             ELSE [h EXCEPT ![pos + 1] = newitem]
    ELSE [h EXCEPT ![pos + 1] = newitem]

\* heapq._siftup: bubble the smaller child up to a leaf, then sift down
RECURSIVE SiftUpLoop(_, _, _)
SiftUpLoop(h, pos, newitem) ==
    LET endpos   == Len(h)
        childpos == 2 * pos + 1
    IN  IF childpos < endpos
        THEN LET rightpos == childpos + 1
                 c == IF rightpos < endpos /\ ~ItemLt(h[childpos + 1], h[rightpos + 1])
                      THEN rightpos ELSE childpos
             IN  SiftUpLoop([h EXCEPT ![pos + 1] = h[c + 1]], c, newitem)
        ELSE SiftDown(h, 0, pos, newitem)

\* heapq.heappush
HeapPush(h, item) == SiftDown(Append(h, item), 0, Len(h), item)

\* heapq.heappop: <<returned item, remaining heap>>
HeapPop(h) ==
    LET lastelt == h[Len(h)]
        rest    == SubSeq(h, 1, Len(h) - 1)
    IN  IF rest # <<>>
        THEN <<rest[1], SiftUpLoop([rest EXCEPT ![1] = lastelt], 0, lastelt)>>
        ELSE <<lastelt, rest>>

\* ------------------------------------------------------------------ inputs
MaxVideos == 2       \* videos handed to download_course

CourseDir == "course"
QueueDir  == "queue"

Letters == <<"a", "b", "c">>
IdNames == <<"v1", "v2", "v3">>

Video(id, title, url, size) ==
    [id |-> id, title |-> title, url |-> url, size |-> size, format |-> "mp4"]

\* i-th video of a course: own id, title and url; size 0 is "not known"
CourseVideo(i, size) == Video(IdNames[i], <<Letters[i]>>, <<"x", Letters[i]>>, size)

\* A size no disk of the model has room for
TooBig == MaxSize + 1

\* What a course video can look like before the download: its announced size and
\* the file an earlier run left at its path.  The first video takes every shape;
\* the second is new, too big or already there; the others are new.
VideoShapes(i) ==
    IF i = 1 THEN [size : {0, MaxSize, TooBig},
                   file : {NoFile, File(Content(1)), File(Content(MaxSize))}]
    ELSE IF i = 2 THEN {[size |-> 1, file |-> NoFile], [size |-> TooBig, file |-> NoFile],
                        [size |-> MaxSize, file |-> File(Content(MaxSize))]}
    ELSE {[size |-> 1, file |-> NoFile]}

CourseShapes ==
    UNION {{sh \in [1..n -> UNION {VideoShapes(i) : i \in 1..n}] :
              \A i \in 1..n : sh[i] \in VideoShapes(i)} : n \in 0..MaxVideos}

\* Queue videos: q1 and q2 share url and title and differ in id, q3 is too big
QueuePool == {Video("q1", <<"q">>, <<"z">>, 1),
              Video("q2", <<"q">>, <<"z">>, 1),
              Video("q3", <<"r">>, <<"w">>, TooBig)}
Priorities == {0, 1}

CoursePaths == {FilePath(CourseDir, CourseVideo(i, 0)) : i \in 1..MaxVideos}
QueuePaths  == {FilePath(QueueDir, v) : v \in QueuePool}
AllPaths    == CoursePaths \cup QueuePaths

NoVideo == Video("none", <<>>, <<>>, 0)

Worker == 0
Tasks  == 1..MaxVideos

\* two direct, concurrent calls of download_video_with_retry
Callers  == {-1, -2}
Retriers == {Worker} \cup Callers
Procs    == Retriers \cup Tasks

\* ------------------------------------------------------------------- state
VARIABLES
    options,             \* DownloadOptions: concurrent_downloads, resume_enabled
    retry_config,        \* RetryConfig: max_retries
    free_space,          \* free bytes os.statvfs reports for the output directory
    files,               \* path -> NoFile or the bytes of the file
    videos,              \* the list given to download_course
    cpc,                 \* position of download_course
    course_progress,     \* CourseDownloadProgress
    download_semaphore,  \* value of asyncio.Semaphore(concurrent_downloads)
    proc,                \* per task: position and locals of download_video/_download_file
    download_queue,      \* heap of DownloadQueueItem
    adds_left,           \* add_to_download_queue calls still to come
    duplicate_tracker,   \* hash -> filepath
    failed_downloads,    \* video_id -> retry count
    shutdown_requested,  \* EdxDownloaderApp.shutdown_requested
    cancel_requested,    \* the download_course coroutine was cancelled
    succeeded,           \* history: <<id, url, title>> of the videos whose
                         \* download_video_with_retry call downloaded them and
                         \* whose file was not removed since
    extraction,          \* a call of VideoExtractor.extract_videos_from_block
    walk,                \* a call of EdxDownloaderApp._extract_all_videos
    parsing,             \* a call of VideoExtractor._parse_video_json
    outline,             \* a call of CourseManager.get_course_outline
    sanitizing,          \* a call of DownloadManager._sanitize_filename
    backoff,             \* a call of download_video_with_retry and the delays it slept
    sizing,              \* a call of DownloadManager._get_content_size
    client,              \* an EdxApiClient: its response cache, clock and requests
    resume_data_file,    \* the content of <output_directory>/.edx_resume_data.json
    resume_data          \* self.resume_data of the manager constructed last

vars == <<options, retry_config, free_space, files, videos, cpc, course_progress,
          download_semaphore, proc, download_queue, adds_left, duplicate_tracker,
          failed_downloads, shutdown_requested, cancel_requested, succeeded,
          extraction, walk, parsing, outline, sanitizing, backoff, sizing, client,
          resume_data_file, resume_data>>

\* what no step of the download manager changes
env == <<options, retry_config, free_space, extraction, walk, parsing, outline,
         sanitizing, backoff, sizing, client, resume_data_file, resume_data>>

\* the state of the download manager and of the app's shutdown flag
downloads == <<options, retry_config, free_space, files, videos, cpc, course_progress,
               download_semaphore, proc, download_queue, adds_left, duplicate_tracker,
               failed_downloads, shutdown_requested, cancel_requested, succeeded>>

manager == <<downloads, resume_data_file, resume_data>>

\* a component no call is made on
Unused == <<>>

\* DownloadProgress(video_id, filename): total 0, downloaded 0, status pending
NewProgress(video) ==
    [video_id |-> video.id, total_size |-> 0, downloaded_size |-> 0, status |-> "pending"]

\* headers['Range'] = f'bytes={resume_pos}-', and the offset a server reads from it
NoRange == <<>>
RangeHeader(resume_pos) == <<"bytes=", resume_pos, "-">>
RangeStart(header) == header[2]

\* CourseDownloadProgress(total_videos=len(videos))
NewCourseProgress(n) ==
    [total_videos |-> n, completed_videos |-> 0, failed_videos |-> 0,
     total_size |-> 0, downloaded_size |-> 0, video_progress |-> <<>>]

IdleProc ==
    [pc |-> "idle", video |-> NoVideo, dir |-> None, progress |-> NewProgress(NoVideo),
     resume_pos |-> 0, range |-> NoRange, requests |-> 0, body |-> <<>>,
     resp_status |-> 0, resp_len |-> 0, mode |-> None, pos |-> 0, file0 |-> NoFile,
     interrupted |-> FALSE, attempt |-> 0, calls |-> 0, fails |-> 0, dup |-> FALSE,
     err |-> "none", callbacks |-> 0, priority |-> 0, at_raise |-> None]

\* the resume manifest does not exist
NoManifest == [exists |-> FALSE, active_downloads |-> <<>>]

\* self.active_downloads: set to {} in __init__; no statement of the package adds
\* an entry to it or assigns it again
active_downloads == <<>>

\* _load_resume_data: {} when the file does not exist, else its content
_load_resume_data(file) ==
    IF ~file.exists THEN <<>> ELSE [active_downloads |-> file.active_downloads]

\* _save_resume_data: one entry per item of self.active_downloads
_save_resume_data ==
    [exists |-> TRUE,
     active_downloads |->
        [vid \in DOMAIN active_downloads |->
            [filename        |-> active_downloads[vid].filename,
             downloaded_size |-> active_downloads[vid].downloaded_size,
             total_size      |-> active_downloads[vid].total_size,
             status          |-> active_downloads[vid].status]]]

\* What is fixed by construction: DownloadManager.__init__ and a fresh app
InitManager ==
    /\ options \in [concurrent_downloads : 1..MaxConcurrent, resume_enabled : BOOLEAN]
    /\ free_space = MaxSize
    /\ cpc = "idle"
    /\ course_progress = NewCourseProgress(0)
    /\ download_semaphore = options.concurrent_downloads
    /\ proc = [p \in Procs |-> IdleProc]
    /\ duplicate_tracker = <<>>
    /\ failed_downloads = <<>>
    /\ shutdown_requested = FALSE
    /\ cancel_requested = FALSE
    /\ succeeded = {}
    /\ resume_data_file = NoManifest
    /\ resume_data = [run |-> 1, data |-> _load_resume_data(NoManifest)]

\* A course over the files of an earlier run; the queue is not used
InitCourse ==
    /\ retry_config = [max_retries |-> MaxRetries]
    /\ \E sh \in CourseShapes :
         /\ download_queue = <<>>
         /\ videos = [i \in DOMAIN sh |-> CourseVideo(i, sh[i].size)]
         /\ files = [p \in AllPaths |->
                       IF \E i \in DOMAIN sh : p = FilePath(CourseDir, CourseVideo(i, 0))
                       THEN sh[CHOOSE i \in DOMAIN sh :
                                 p = FilePath(CourseDir, CourseVideo(i, 0))].file
                       ELSE NoFile]
    /\ adds_left = 0

\* The queue alone, over an empty output directory
InitQueue ==
    /\ retry_config \in [max_retries : 0..MaxRetries]
    /\ download_queue = <<>>
    /\ videos = <<>>
    /\ files = [p \in AllPaths |-> NoFile]
    /\ adds_left = MaxQueueAdds

\* A course of new one-byte videos while the queue holds an item
InitBoth ==
    /\ options.resume_enabled
    /\ retry_config = [max_retries |-> 0]
    /\ download_queue = HeapPush(<<>>, [video |-> Video("q1", <<"q">>, <<"z">>, 1),
                                        priority |-> 0])
    /\ videos = [i \in 1..MaxVideos |-> CourseVideo(i, 1)]
    /\ files = [p \in AllPaths |-> NoFile]
    /\ adds_left = 0

\* no call is made on any component but the one named
OthersUnused(used) ==
    /\ used # "extraction" => extraction = Unused
    /\ used # "walk" => walk = Unused
    /\ used # "parsing" => parsing = Unused
    /\ used # "outline" => outline = Unused
    /\ used # "sanitizing" => sanitizing = Unused
    /\ used # "backoff" => backoff = Unused
    /\ used # "sizing" => sizing = Unused
    /\ used # "client" => client = Unused

\* the components outside the download manager are not used
InitRest == OthersUnused("manager")

Init == InitManager /\ (InitCourse \/ InitQueue \/ InitBoth) /\ InitRest

\* a download manager that is constructed and never used
IdleManager ==
    /\ InitManager
    /\ options = [concurrent_downloads |-> 1, resume_enabled |-> TRUE]
    /\ retry_config = [max_retries |-> 0]
    /\ download_queue = <<>>
    /\ videos = <<>>
    /\ files = [p \in AllPaths |-> NoFile]
    /\ adds_left = 0

\* --------------------------------------------------------- small operators
Put(f, k, v) == [x \in DOMAIN f \cup {k} |-> IF x = k THEN v ELSE f[x]]
Remove(f, k) == [x \in DOMAIN f \ {k} |-> f[x]]


\* (variant) the semaphore lets a caller in although no permit is left
CanAcquireAtZero(value) == value >= 0

\* asyncio.Semaphore: acquire() returns at once only while the value is positive
CanAcquire(value) == value > 0


\* (variant) the disk check tolerates a shortfall of one byte
DiskSpaceShortByTwo(required_size, available_space) == required_size > available_space + 1

\* _check_disk_space: the condition under which DiskSpaceError is raised
DiskSpaceShort(required_size, available_space) == required_size > available_space

\* (variant) only a file longer than the total counts as complete
AlreadyCompleteLonger(resume_pos, total_size) == resume_pos > total_size /\ total_size > 0

\* _download_file: "if resume_pos >= progress.total_size > 0" (file already complete)
AlreadyComplete(resume_pos, total_size) == resume_pos >= total_size /\ total_size > 0

\* download_video: the errors it re-raises after marking the progress failed
ReRaised(err) == err \in {"DiskSpaceError", "FilePermissionError"}


\* (variant) the retry loop gives up one attempt early
HasRetriesLeftEarly(attempt, max_retries) == attempt + 1 < max_retries

\* download_video_with_retry: "if attempt < self.retry_config.max_retries"
HasRetriesLeft(attempt, max_retries) == attempt < max_retries

\* (variant) a cancelled transfer is marked like any other failure
OnCancelledFailed(progress) == [progress EXCEPT !.status = "failed"]

\* _download_file: "except asyncio.CancelledError: progress.status = 'paused'"
OnCancelled(progress) == [progress EXCEPT !.status = "paused"]

\* download_video: "except Exception: progress.status = 'failed'"
OnException(progress) == [progress EXCEPT !.status = "failed"]

\* download_video: progress.status = "completed" after _download_file returned
OnSuccess(progress) == [progress EXCEPT !.status = "completed"]


\* (variant) the wait ends with the first task that ends (asyncio.wait FIRST_COMPLETED)
GatherDoneFirst(pcs) == \E t \in Tasks : pcs[t] \in {"done", "raised", "cancelled"}

\* asyncio.gather(*download_tasks, return_exceptions=True) is over when every task is
GatherDone(pcs) == \A t \in Tasks : pcs[t] \in {"idle", "done", "raised", "cancelled"}


\* (variant) a file one byte short of the size counts as downloaded
NeedsDownloadOffByOne(f, size) == ~f.exists \/ (size # 0 /\ FileSize(f) + 1 < size)

\* _filter_existing_videos: the file is missing, or "video.size and st_size < video.size"
NeedsDownload(f, size) == ~f.exists \/ (size # 0 /\ FileSize(f) < size)

\* _filter_existing_videos: indices of the videos kept, in input order
RECURSIVE FilterFrom(_, _, _, _)
FilterFrom(vs, fs, resume_enabled, i) ==
    IF i > Len(vs) THEN <<>>
    ELSE LET f == fs[FilePath(CourseDir, vs[i])]
             keep == ~resume_enabled \/ NeedsDownload(f, vs[i].size)
         IN  (IF keep THEN <<i>> ELSE <<>>) \o FilterFrom(vs, fs, resume_enabled, i + 1)

_filter_existing_videos(vs, fs, resume_enabled) == FilterFrom(vs, fs, resume_enabled, 1)

\* CourseDownloadProgress.success_rate, in whole percent
success_rate(cp) ==
    IF cp.total_videos = 0 THEN 0
    ELSE ((cp.total_videos - cp.failed_videos) * 100) \div cp.total_videos


\* (variant) only completed results are counted
RecordProgressCompletedOnly(cp, video, progress) ==
    LET cp1 == [cp EXCEPT !.video_progress = Put(@, video.id, progress)]
    IN  IF progress.status = "completed"
        THEN [cp1 EXCEPT !.completed_videos = @ + 1,
                         !.downloaded_size = @ + progress.downloaded_size]
        ELSE cp1

\* _download_video_with_semaphore: the update of the course progress
RecordProgress(cp, video, progress) ==
    LET cp1 == [cp EXCEPT !.video_progress = Put(@, video.id, progress)]
    IN  IF progress.status = "completed"
        THEN [cp1 EXCEPT !.completed_videos = @ + 1,
                         !.downloaded_size = @ + progress.downloaded_size]
        ELSE IF progress.status = "failed"
        THEN [cp1 EXCEPT !.failed_videos = @ + 1]
        ELSE cp1

\* _track_downloaded_video
_track_downloaded_video(dt, video, dir) == Put(dt, video_hash(video), FilePath(dir, video))

\* _is_duplicate_video: the answer, and the tracker it leaves behind
_is_duplicate_video(dt, video, fs) ==
    video_hash(video) \in DOMAIN dt /\ fs[dt[video_hash(video)]].exists

TrackerAfterCheck(dt, video, fs) ==
    IF video_hash(video) \in DOMAIN dt /\ ~fs[dt[video_hash(video)]].exists
    THEN Remove(dt, video_hash(video)) ELSE dt


\* (variant) the file is always opened for writing from scratch
OpenModeTruncate(resume_pos) == "wb"

\* _download_file: mode = 'ab' if resume_pos > 0 else 'wb'
OpenMode(resume_pos) == IF resume_pos > 0 THEN "ab" ELSE "wb"

\* a write of one byte through a file handle: 'ab' appends, 'wb' writes at its offset
WriteChunk(f, mode, pos, b) ==
    IF mode = "ab" THEN File(f.data \o <<b>>)
    ELSE LET n == IF pos + 1 > Len(f.data) THEN pos + 1 ELSE Len(f.data)
         IN  File([i \in 1..n |-> IF i = pos + 1 THEN b
                                  ELSE IF i <= Len(f.data) THEN f.data[i] ELSE 0])

\* download_video and _download_file from the call to the first network request
\* (probe: what _get_content_size answers when video.size is not known)
Prefix(video, dir, fs, probe) ==
    LET f  == fs[FilePath(dir, video)]
        P0 == NewProgress(video)
    IN  IF f.exists /\ ~options.resume_enabled
        THEN [kind |-> "exists", err |-> "none", video |-> video,
              progress |-> [P0 EXCEPT !.status = "completed", !.total_size = FileSize(f),
                                      !.downloaded_size = FileSize(f)],
              resume_pos |-> 0, range |-> NoRange]
        ELSE
        LET v2 == IF video.size = 0 THEN [video EXCEPT !.size = probe] ELSE video
            P1 == [P0 EXCEPT !.total_size = v2.size]
            resuming == options.resume_enabled /\ f.exists
            rp == IF resuming THEN FileSize(f) ELSE 0
            P2 == IF resuming THEN [P1 EXCEPT !.downloaded_size = rp] ELSE P1
        IN  IF DiskSpaceShort(P1.total_size, free_space)
            THEN [kind |-> "disk", err |-> "DiskSpaceError", video |-> v2,
                  progress |-> OnException(P1), resume_pos |-> 0, range |-> NoRange]
            ELSE IF resuming /\ AlreadyComplete(rp, P2.total_size)
            THEN [kind |-> "already", err |-> "none", video |-> v2,
                  progress |-> OnSuccess(P2), resume_pos |-> rp, range |-> NoRange]
            ELSE [kind |-> "request", err |-> "none", video |-> v2,
                  progress |-> [P2 EXCEPT !.status = "downloading"], resume_pos |-> rp,
                  range |-> IF rp > 0 THEN RangeHeader(rp) ELSE NoRange]


\* (variant) the retry count of an earlier call is left in place
ResetRetryCountNoop(fd, id) == fd

\* download_video_with_retry: self.failed_downloads.pop(video.id, None)
ResetRetryCount(fd, id) == Remove(fd, id)

\* (variant) the permit of the queue worker is not given back
ReleaseLeak(p, sem) == sem

\* the end of "async with self.download_semaphore" around a call made by a course
\* task or by process_download_queue; a direct call holds no permit
Release(p, sem) == IF p \in Callers THEN sem ELSE sem + 1

\* where a returning download_video_with_retry call leaves its caller
ReturnPc(p) == IF p \in Callers THEN "returned" ELSE "loop"

\* ------------------------------------------------------------ end of a call
\* download_video has returned progress P (err = "none") or handled the error err.
\* A course task records P and leaves the semaphore (_download_video_with_semaphore);
\* the queue worker goes on with download_video_with_retry.
Finish(p, pr0, P, err, fs, sem, dt) ==
    LET pr == [pr0 EXCEPT !.resume_pos = 0, !.range = NoRange, !.body = <<>>,
                          !.resp_status = 0, !.resp_len = 0, !.mode = None, !.pos = 0,
                          !.err = err]
    IN
    /\ files' = fs
    /\ succeeded' = IF p \in Retriers /\ ~ReRaised(err) /\ P.status = "completed"
                    THEN succeeded \cup {<<pr.video.id, pr.video.url, pr.video.title>>}
                    ELSE succeeded
    /\ IF p \in Tasks
       THEN /\ duplicate_tracker' = dt
            /\ failed_downloads' = failed_downloads
            /\ download_semaphore' = sem + 1
            /\ IF ReRaised(err)
               THEN /\ proc' = [proc EXCEPT ![p] = [pr EXCEPT !.pc = "raised", !.progress = P]]
                    /\ course_progress' = course_progress
               ELSE /\ proc' = [proc EXCEPT ![p] = [pr EXCEPT !.pc = "done", !.progress = P,
                                                              !.callbacks = @ + 1]]
                    /\ course_progress' = RecordProgress(course_progress, pr.video, P)
       ELSE /\ course_progress' = course_progress
            /\ IF ~ReRaised(err) /\ P.status = "completed"
               THEN /\ failed_downloads' = ResetRetryCount(failed_downloads, pr.video.id)
                    /\ duplicate_tracker' = _track_downloaded_video(dt, pr.video, pr.dir)
                    /\ download_semaphore' = Release(p, sem)
                    /\ proc' = [proc EXCEPT ![p] = [pr EXCEPT !.pc = ReturnPc(p), !.progress = P]]
               ELSE IF HasRetriesLeft(pr.attempt, retry_config.max_retries)
               THEN /\ failed_downloads' = failed_downloads
                    /\ duplicate_tracker' = dt
                    /\ download_semaphore' = sem
                    /\ proc' = [proc EXCEPT ![p] = [pr EXCEPT !.pc = "sleeping", !.progress = P,
                                                              !.fails = @ + 1]]
               ELSE /\ failed_downloads' = Put(failed_downloads, pr.video.id, pr.attempt + 1)
                    /\ duplicate_tracker' = dt
                    /\ download_semaphore' = Release(p, sem)
                    /\ proc' = [proc EXCEPT ![p] =
                                  [pr EXCEPT !.pc = ReturnPc(p), !.fails = @ + 1,
                                             !.progress = IF ReRaised(err)
                                                          THEN OnException(NewProgress(pr.video))
                                                          ELSE P]]

\* download_video called: run to the first network request, or to its end
BeginVideo(p, pr, fs, sem, dt) ==
    \E probe \in (IF pr.video.size = 0 THEN 0..MaxSize ELSE {0}) :
        LET o   == Prefix(pr.video, pr.dir, fs, probe)
            pr2 == [pr EXCEPT !.video = o.video, !.progress = o.progress,
                              !.resume_pos = o.resume_pos, !.range = o.range,
                              !.file0 = fs[FilePath(pr.dir, pr.video)],
                              !.requests = 0, !.body = <<>>, !.resp_status = 0,
                              !.resp_len = 0, !.mode = None, !.pos = 0,
                              !.at_raise = None]
        IN  IF o.kind = "request"
            THEN /\ proc' = [proc EXCEPT ![p] = [pr2 EXCEPT !.pc = "requesting", !.requests = 1]]
                 /\ files' = fs
                 /\ download_semaphore' = sem
                 /\ duplicate_tracker' = dt
                 /\ UNCHANGED <<failed_downloads, course_progress, succeeded>>
            ELSE Finish(p, pr2, o.progress, o.err, fs, sem, dt)

\* one iteration of the loop of download_video_with_retry
RetryIteration(p, pr, fs, sem, dt) ==
    IF _is_duplicate_video(dt, pr.video, fs)
    THEN /\ proc' = [proc EXCEPT ![p] =
                       [pr EXCEPT !.pc = ReturnPc(p), !.dup = TRUE,
                                  !.progress = OnSuccess(NewProgress(pr.video))]]
         /\ download_semaphore' = Release(p, sem)
         /\ duplicate_tracker' = dt
         /\ files' = fs
         /\ UNCHANGED <<failed_downloads, course_progress, succeeded>>
    ELSE BeginVideo(p, [pr EXCEPT !.calls = @ + 1], fs, sem,
                    TrackerAfterCheck(dt, pr.video, fs))


\* (variant) the partial file is removed whether or not resume is enabled
RemovePartialAlways(resume_enabled, exists) == exists

\* _download_file: "if not self.options.resume_enabled and filepath.exists()"
RemovePartial(resume_enabled, exists) == ~resume_enabled /\ exists

\* _download_file "except Exception": failed, the partial file removed unless resuming
FailTransfer(p, pr) ==
    LET path == FilePath(pr.dir, pr.video)
        fs   == IF RemovePartial(options.resume_enabled, files[path].exists)
                THEN [files EXCEPT ![path] = NoFile] ELSE files
    IN  Finish(p, [pr EXCEPT !.at_raise = OnException(pr.progress).status],
               OnException(OnException(pr.progress)), "DownloadError", fs,
               download_semaphore, duplicate_tracker)

frame == <<env, videos, cpc, download_queue, adds_left, shutdown_requested, cancel_requested>>

\* ------------------------------------------------------------------ actions
\* download_course up to asyncio.gather
DownloadCourse ==
    /\ cpc = "idle"
    /\ LET cp0  == NewCourseProgress(Len(videos))
           keep == _filter_existing_videos(videos, files, options.resume_enabled)
           need == {i \in Range(keep) : videos[i].size = 0}
       IN  IF keep = <<>>
           THEN /\ course_progress' = [cp0 EXCEPT !.completed_videos = Len(videos)]
                /\ cpc' = "returned"
                /\ UNCHANGED <<videos, proc>>
           ELSE \E probes \in [need -> 0..MaxSize] :
                /\ videos' = [i \in DOMAIN videos |->
                                IF i \in need THEN [videos[i] EXCEPT !.size = probes[i]]
                                ELSE videos[i]]
                /\ course_progress' = [cp0 EXCEPT !.total_size = SumSizes(videos')]
                /\ proc' = [p \in Procs |->
                              IF p \in Range(keep)
                              THEN [IdleProc EXCEPT !.pc = "waiting", !.video = videos'[p],
                                                    !.dir = CourseDir]
                              ELSE proc[p]]
                /\ cpc' = "gather"
    /\ UNCHANGED <<env, files, download_semaphore, download_queue, adds_left,
                   duplicate_tracker, failed_downloads, shutdown_requested, cancel_requested, succeeded>>

\* "async with self.download_semaphore" entered, and the call made under it
Acquire(p) ==
    /\ proc[p].pc = "waiting"
    /\ p \in Tasks => ~cancel_requested
    /\ CanAcquire(download_semaphore)
    /\ IF p \in Tasks
       THEN BeginVideo(p, proc[p], files, download_semaphore - 1, duplicate_tracker)
       ELSE RetryIteration(p, [proc[p] EXCEPT !.attempt = 0, !.calls = 0, !.fails = 0,
                                               !.dup = FALSE],
                           files, download_semaphore - 1, duplicate_tracker)
    /\ UNCHANGED frame

\* the server answers session.get: status, body, content-length; the file is opened
Response(p) ==
    /\ proc[p].pc = "requesting"
    /\ p \in Tasks => ~cancel_requested
    /\ \E status \in {200, 206, 404}, e \in 0..MaxSize, hasCL \in BOOLEAN :
        LET pr   == proc[p]
            path == FilePath(pr.dir, pr.video)
            body == IF status = 206 THEN Slice(RangeStart(pr.range), e) ELSE Content(e)
            P    == IF pr.progress.total_size = 0 /\ hasCL
                    THEN [pr.progress EXCEPT !.total_size = Len(body) + pr.resume_pos]
                    ELSE pr.progress
            mode == OpenMode(pr.resume_pos)
            f    == IF mode = "wb" \/ ~files[path].exists THEN File(<<>>) ELSE files[path]
        IN  /\ status = 206 => pr.range # NoRange
            /\ status = 404 => e = 0 /\ ~hasCL
            /\ IF status \notin {200, 206}
               THEN FailTransfer(p, pr)
               ELSE /\ proc' = [proc EXCEPT ![p] =
                                  [pr EXCEPT !.pc = "streaming", !.progress = P,
                                             !.body = body, !.resp_status = status,
                                             !.resp_len = Len(body), !.mode = mode, !.pos = 0]]
                    /\ files' = [files EXCEPT ![path] = f]
                    /\ UNCHANGED <<download_semaphore, duplicate_tracker, failed_downloads,
                                   course_progress, succeeded>>
    /\ UNCHANGED frame

\* _write_chunks_with_bandwidth_control: one chunk written
Chunk(p) ==
    /\ proc[p].pc = "streaming"
    /\ p \in Tasks => ~cancel_requested
    /\ proc[p].body # <<>>
    /\ LET pr   == proc[p]
           path == FilePath(pr.dir, pr.video)
       IN  /\ files' = [files EXCEPT ![path] = WriteChunk(@, pr.mode, pr.pos, Head(pr.body))]
           /\ proc' = [proc EXCEPT ![p] =
                         [pr EXCEPT !.body = Tail(@), !.pos = @ + 1,
                                    !.progress = [@ EXCEPT !.downloaded_size = @ + 1]]]
    /\ UNCHANGED <<download_semaphore, duplicate_tracker, failed_downloads, course_progress,
                   succeeded>>
    /\ UNCHANGED frame

\* the body is exhausted: _download_file returns, download_video reports completed
StreamEnd(p) ==
    /\ proc[p].pc = "streaming"
    /\ p \in Tasks => ~cancel_requested
    /\ proc[p].body = <<>>
    /\ Finish(p, proc[p], OnSuccess(proc[p].progress), "none", files,
              download_semaphore, duplicate_tracker)
    /\ UNCHANGED frame

\* the request or the stream raises (connection lost, timeout, write error)
TransferError(p) ==
    /\ proc[p].pc \in {"requesting", "streaming"}
    /\ p \in Tasks => ~cancel_requested
    /\ FailTransfer(p, proc[p])
    /\ UNCHANGED frame

\* the backoff sleep of download_video_with_retry is over: next attempt
Wake(p) ==
    /\ proc[p].pc = "sleeping"
    /\ RetryIteration(p, [proc[p] EXCEPT !.attempt = @ + 1], files,
                      download_semaphore, duplicate_tracker)
    /\ UNCHANGED frame

\* add_to_download_queue
AddToQueue ==
    /\ adds_left > 0
    /\ \E v \in QueuePool, prio \in Priorities :
         download_queue' = HeapPush(download_queue, [video |-> v, priority |-> prio])
    /\ adds_left' = adds_left - 1
    /\ UNCHANGED <<env, files, videos, cpc, course_progress, download_semaphore, proc,
                   duplicate_tracker, failed_downloads, shutdown_requested, cancel_requested, succeeded>>

\* process_download_queue called
ProcessQueue ==
    /\ proc[Worker].pc = "idle"
    /\ proc' = [proc EXCEPT ![Worker] = [@ EXCEPT !.pc = "loop"]]
    /\ UNCHANGED <<env, files, videos, cpc, course_progress, download_semaphore,
                   download_queue, adds_left, duplicate_tracker, failed_downloads,
                   shutdown_requested, cancel_requested, succeeded>>

\* "while self.download_queue": pop the next item, or return the results
QueueLoop ==
    /\ proc[Worker].pc = "loop"
    /\ IF download_queue = <<>>
       THEN /\ proc' = [proc EXCEPT ![Worker] = [@ EXCEPT !.pc = "returned"]]
            /\ UNCHANGED download_queue
       ELSE LET r == HeapPop(download_queue)
            IN  /\ download_queue' = r[2]
                /\ proc' = [proc EXCEPT ![Worker] =
                              [IdleProc EXCEPT !.pc = "waiting", !.video = r[1].video,
                                               !.dir = QueueDir,
                                               !.priority = r[1].priority]]
    /\ UNCHANGED <<env, files, videos, cpc, course_progress, download_semaphore,
                   adds_left, duplicate_tracker, failed_downloads,
                   shutdown_requested, cancel_requested, succeeded>>

\* a downloaded file of the queue directory is removed by the user
DeleteFile ==
    /\ \E path \in QueuePaths :
        /\ files[path].exists
        /\ \A p \in Procs : ~(proc[p].pc \in {"requesting", "streaming"}
                              /\ FilePath(proc[p].dir, proc[p].video) = path)
        /\ files' = [files EXCEPT ![path] = NoFile]
        /\ succeeded' = {s \in succeeded :
                            FilePath(QueueDir, Video(s[1], s[3], s[2], 0)) # path}
    /\ UNCHANGED <<env, videos, cpc, course_progress, download_semaphore, proc,
                   download_queue, adds_left, duplicate_tracker, failed_downloads,
                   shutdown_requested, cancel_requested>>

\* signal_handler of EdxDownloaderApp: SIGINT or SIGTERM received
Signal ==
    /\ ~shutdown_requested
    /\ shutdown_requested' = TRUE
    /\ UNCHANGED <<env, files, videos, cpc, course_progress, download_semaphore, proc,
                   download_queue, adds_left, duplicate_tracker, failed_downloads,
                   cancel_requested, succeeded>>

\* the coroutine awaiting asyncio.gather is cancelled: gather cancels its children
CancelCourse ==
    /\ cpc = "gather"
    /\ ~cancel_requested
    /\ cancel_requested' = TRUE
    /\ UNCHANGED <<env, files, videos, cpc, course_progress, download_semaphore, proc,
                   download_queue, adds_left, duplicate_tracker, failed_downloads,
                   shutdown_requested, succeeded>>

\* CancelledError reaches a task: while it waits for the semaphore the task ends;
\* inside _download_file it becomes DownloadInterruptedError, which download_video handles
DeliverCancel(t) ==
    /\ cancel_requested
    /\ proc[t].pc \in {"waiting", "requesting", "streaming"}
    /\ IF proc[t].pc = "waiting"
       THEN /\ proc' = [proc EXCEPT ![t] = [@ EXCEPT !.pc = "cancelled"]]
            /\ UNCHANGED <<files, download_semaphore, duplicate_tracker, failed_downloads,
                           course_progress, succeeded>>
       ELSE Finish(t, [proc[t] EXCEPT !.interrupted = TRUE,
                                      !.at_raise = OnCancelled(proc[t].progress).status],
                   OnException(OnCancelled(proc[t].progress)), "DownloadInterruptedError",
                   files, download_semaphore, duplicate_tracker)
    /\ UNCHANGED frame

\* asyncio.gather is over: download_course returns, or raises CancelledError
CourseReturn ==
    /\ cpc = "gather"
    /\ GatherDone([t \in Tasks |-> proc[t].pc])
    /\ cpc' = IF cancel_requested THEN "cancelled" ELSE "returned"
    /\ UNCHANGED <<env, files, videos, course_progress, download_semaphore, proc,
                   download_queue, adds_left, duplicate_tracker, failed_downloads,
                   shutdown_requested, cancel_requested, succeeded>>

Next ==
    \/ DownloadCourse
    \/ \E p \in Procs : Acquire(p)
    \/ \E p \in Procs : Response(p)
    \/ \E p \in Procs : Chunk(p)
    \/ \E p \in Procs : StreamEnd(p)
    \/ \E p \in Procs : TransferError(p)
    \/ \E p \in Retriers : Wake(p)
    \/ AddToQueue
    \/ ProcessQueue
    \/ QueueLoop
    \/ DeleteFile
    \/ Signal
    \/ CancelCourse
    \/ \E t \in Tasks : DeliverCancel(t)
    \/ CourseReturn

Spec == Init /\ [][Next]_vars

\* ------------------------------------- concurrent download_video_with_retry
\* Two calls of download_video_with_retry made at once (asyncio.gather of the two
\* coroutines) on a fresh manager over an empty directory.
InitCalls ==
    /\ InitManager
    /\ retry_config \in [max_retries : 0..MaxRetries]
    /\ download_queue = <<>>
    /\ videos = <<>>
    /\ files = [p \in AllPaths |-> NoFile]
    /\ adds_left = 0
    /\ InitRest

\* download_video_with_retry(video, output_dir) called: first iteration of its loop
CallWithRetry(c) ==
    /\ ~resume_data_file.exists          \* inside "async with DownloadManager(...)"
    /\ proc[c].pc = "idle"
    /\ \E v \in QueuePool :
         RetryIteration(c, [IdleProc EXCEPT !.video = v, !.dir = QueueDir], files,
                        download_semaphore, duplicate_tracker)
    /\ UNCHANGED frame

\* __aexit__, once the calls made inside the context have returned: the session is
\* closed and the resume manifest written
Exit ==
    /\ ~resume_data_file.exists
    /\ \A c \in Callers : proc[c].pc \in {"idle", "returned"}
    /\ resume_data_file' = _save_resume_data
    /\ UNCHANGED <<downloads, extraction, walk, parsing, outline, sanitizing, backoff,
                   sizing, client, resume_data>>

\* the next run: DownloadManager.__init__ over the same output directory
Startup ==
    /\ resume_data_file.exists
    /\ resume_data.run = 1
    /\ resume_data' = [run |-> 2, data |-> _load_resume_data(resume_data_file)]
    /\ UNCHANGED <<downloads, extraction, walk, parsing, outline, sanitizing, backoff,
                   sizing, client, resume_data_file>>

\* the directory's file system fills up while no transfer is writing to it
\* (os.statvfs reports less free space to the next call)
DiskFills ==
    /\ free_space > 0
    /\ \A p \in Procs : proc[p].pc \notin {"requesting", "streaming"}
    /\ free_space' = free_space - 1
    /\ UNCHANGED <<options, retry_config, files, videos, cpc, course_progress,
                   download_semaphore, proc, download_queue, adds_left, duplicate_tracker,
                   failed_downloads, shutdown_requested, cancel_requested, succeeded,
                   extraction, walk, parsing, outline, sanitizing, backoff, sizing,
                   client, resume_data_file, resume_data>>

NextCalls ==
    \/ Exit
    \/ Startup
    \/ DiskFills
    \/ \E c \in Callers : CallWithRetry(c)
    \/ \E c \in Callers : Response(c)
    \/ \E c \in Callers : Chunk(c)
    \/ \E c \in Callers : StreamEnd(c)
    \/ \E c \in Callers : TransferError(c)
    \/ \E c \in Callers : Wake(c)

SpecCalls == InitCalls /\ [][NextCalls]_vars

\* ------------------------------------------- extract_videos_from_block
\* A strategy of the extractor is given by what it does on the block: it raises an
\* exception, or returns a list of records (possibly empty).  A record carries the
\* name of the strategy that found it.
StrategyNames == {"_extract_from_api_data", "_extract_from_html_parsing",
                  "_extract_from_javascript", "_extract_from_video_elements"}

Found(name, n) == [k \in 1..n |-> [strategy |-> name, index |-> k]]

Outcomes(name) ==
    {[raises |-> e, videos |-> <<>>] : e \in {"ParseError", "NetworkError"}}
        \cup {[raises |-> "none", videos |-> Found(name, n)] : n \in 0..MaxFound}


\* (variant) the HTML strategies are tried before the API data
strategiesHtmlFirst ==
    <<"_extract_from_html_parsing", "_extract_from_api_data",
      "_extract_from_javascript", "_extract_from_video_elements">>

\* extract_videos_from_block: the list "strategies"
strategies ==
    <<"_extract_from_api_data", "_extract_from_html_parsing",
      "_extract_from_javascript", "_extract_from_video_elements">>


\* (variant) "except ParseError": any other exception leaves the call
CaughtParseErrorOnly(exc) == exc = "ParseError"

\* extract_videos_from_block: "except Exception" around the call of a strategy
Caught(exc) == exc \in {"ParseError", "NetworkError", "VideoNotFoundError", "ValueError"}

InitExtract ==
    /\ IdleManager
    /\ OthersUnused("extraction")
    /\ \E oc \in [StrategyNames -> UNION {Outcomes(n) : n \in StrategyNames}] :
         /\ \A n \in StrategyNames : oc[n] \in Outcomes(n)
         /\ extraction = [outcomes |-> oc, pos |-> 1, invoked |-> <<>>,
                          status |-> "running", result |-> <<>>, error |-> "none"]

\* one iteration of "for strategy in strategies"
RunStrategy ==
    /\ extraction.status = "running"
    /\ extraction.pos <= Len(strategies)
    /\ LET name == strategies[extraction.pos]
           o    == extraction.outcomes[name]
           e1   == [extraction EXCEPT !.invoked = Append(@, name)]
       IN  extraction' =
             IF o.raises # "none"
             THEN IF Caught(o.raises)
                  THEN [e1 EXCEPT !.pos = @ + 1]
                  ELSE [e1 EXCEPT !.status = "raised", !.error = o.raises]
             ELSE IF o.videos # <<>>
             THEN [e1 EXCEPT !.status = "returned", !.result = o.videos]
             ELSE [e1 EXCEPT !.pos = @ + 1]
    /\ UNCHANGED <<manager, walk, parsing, outline, sanitizing, backoff, sizing, client>>

\* the loop is over: raise VideoNotFoundError
NoStrategyLeft ==
    /\ extraction.status = "running"
    /\ extraction.pos > Len(strategies)
    /\ extraction' = [extraction EXCEPT !.status = "raised", !.error = "VideoNotFoundError"]
    /\ UNCHANGED <<manager, walk, parsing, outline, sanitizing, backoff, sizing, client>>

NextExtract == RunStrategy \/ NoStrategyLeft

SpecExtract == InitExtract /\ [][NextExtract]_vars

\* ------------------------------------------------- _extract_all_videos
\* The blocks of the outline, in the iteration order of the dict.  A block has a
\* type and a student_view_url (or none); "found" is what extract_video_info does
\* on it: it raises, or returns records.  A record is identified by the block and
\* its position in the block's list; the block is also the section written into
\* record.course_section.
VideoUrls == {"https://cdn/a.mp4", "https://cdn/b.mp4"}

BlockShapes ==
    {[type |-> t, student_view_url |-> "https://lms/block"] :
         t \in {"video", "sequential", "vertical", "chapter"}}
      \cup {[type |-> "video", student_view_url |-> ""]}

Eligible(block) ==
    /\ block.type \in {"video", "sequential", "vertical"}
    /\ block.student_view_url # ""

\* what extract_video_info does on a block
Findings ==
    {[raises |-> TRUE, urls |-> <<>>]}
      \cup {[raises |-> FALSE, urls |-> us] :
                us \in UNION {[1..n -> VideoUrls] : n \in 0..MaxFound}}

\* the records extract_video_info returns for block b when it finds the urls us
Records(b, us) == [k \in DOMAIN us |-> [url |-> us[k], block |-> b, index |-> k]]

RECURSIVE UniqueKeepLast(_, _, _)
\* (variant) of the records of one url the last one is kept
UniqueKeepLast(all_videos, unique_videos, seen_urls) ==
    IF all_videos = <<>> THEN unique_videos
    ELSE LET video == Head(all_videos)
             later == {all_videos[i].url : i \in 2..Len(all_videos)}
         IN  IF video.url \notin later
             THEN UniqueKeepLast(Tail(all_videos), Append(unique_videos, video), seen_urls)
             ELSE UniqueKeepLast(Tail(all_videos), unique_videos, seen_urls)

RECURSIVE Unique(_, _, _)
\* _extract_all_videos: the loop "Remove duplicates based on URL"
Unique(all_videos, unique_videos, seen_urls) ==
    IF all_videos = <<>> THEN unique_videos
    ELSE LET video == Head(all_videos)
         IN  IF video.url \notin seen_urls
             THEN Unique(Tail(all_videos), Append(unique_videos, video),
                         seen_urls \cup {video.url})
             ELSE Unique(Tail(all_videos), unique_videos, seen_urls)


\* (variant) a failed extraction ends the loop over the blocks
AfterFailureAbort(w) == [w EXCEPT !.pos = Len(w.blocks) + 1]

\* _extract_all_videos: "except Exception ... continue"
AfterFailure(w) == [w EXCEPT !.pos = @ + 1]

InitWalk ==
    /\ IdleManager
    /\ OthersUnused("walk")
    /\ \E n \in 0..MaxBlocks :
         \E bs \in [1..n -> BlockShapes], fs \in [1..n -> Findings] :
            \* what a block that is never extracted would yield plays no role
            /\ \A b \in 1..n : ~Eligible(bs[b]) =>
                                   fs[b] = [raises |-> FALSE, urls |-> <<"https://cdn/a.mp4">>]
            /\ walk = [blocks |-> [b \in 1..n |-> [type |-> bs[b].type,
                                   student_view_url |-> bs[b].student_view_url,
                                   found |-> fs[b]]],
                       pos |-> 1, invoked |-> <<>>, all_videos |-> <<>>,
                       status |-> "walking", result |-> <<>>]

\* one iteration of "for block_id, block_data in blocks.items()"
WalkBlock ==
    /\ walk # Unused
    /\ walk.status = "walking"
    /\ walk.pos <= Len(walk.blocks)
    /\ ~shutdown_requested
    /\ LET b     == walk.pos
           block == walk.blocks[b]
           w1    == [walk EXCEPT !.invoked = Append(@, b)]
       IN  walk' =
             IF ~Eligible(block) THEN [walk EXCEPT !.pos = @ + 1]
             ELSE IF block.found.raises THEN AfterFailure(w1)
             ELSE [w1 EXCEPT !.pos = @ + 1,
                             !.all_videos = @ \o Records(b, block.found.urls)]
    /\ UNCHANGED <<manager, extraction, parsing, outline, sanitizing, backoff, sizing, client>>

\* the loop ends (all blocks seen, or "break" on shutdown_requested): remove the
\* duplicates and return
WalkReturn ==
    /\ walk # Unused
    /\ walk.status = "walking"
    /\ walk.pos > Len(walk.blocks) \/ shutdown_requested
    /\ walk' = [walk EXCEPT !.status = "returned",
                            !.result = Unique(walk.all_videos, <<>>, {})]
    /\ UNCHANGED <<manager, extraction, parsing, outline, sanitizing, backoff, sizing, client>>

NextWalk == WalkBlock \/ WalkReturn \/ Signal

SpecWalk == InitWalk /\ [][NextWalk]_vars

\* ------------------------------------------ records made by the extractor
\* A url is modelled by the components urllib.parse.urlparse splits its text into:
\* scheme, netloc and path, the path as its segments and whether it starts with
\* "/".  The empty string has no component.
Url(scheme, netloc, abs, segs) ==
    [scheme |-> scheme, netloc |-> netloc, abs |-> abs, segs |-> segs]

EmptyUrl == Url("", "", FALSE, <<>>)

\* texts that parse into these components exist: a path after a netloc starts with
\* "/", and a path that starts with "/" after nothing is "/" itself or "/seg..."
AllUrls ==
    {u \in [scheme : {"", "https", "ftp"},
            netloc : {"", "cdn.example", "youtube.com"},
            abs    : BOOLEAN,
            segs   : {<<>>, <<"a.mp4">>, <<"v", "a.mp4">>, <<"page.html">>,
                      <<"httpdocs", "a.mp4">>, <<".mp4">>}] :
        /\ (u.netloc # "" /\ u.segs # <<>>) => u.abs
        /\ (u.segs = <<>> /\ u.abs) => u.netloc # ""}

\* api_client.base_url
base_url == Url("https", "courses.edx.org", FALSE, <<>>)

\* str.startswith('http') on the text of the url
startswith_http(u) ==
    IF u.scheme # "" THEN u.scheme \in {"http", "https"}
    ELSE IF u.netloc # "" \/ u.abs THEN FALSE
    ELSE u.segs # <<>> /\ u.segs[1] \in {"httpdocs"}

\* urllib.parse.urljoin(base, u) for a base of scheme https
urljoin(base, u) ==
    IF u = EmptyUrl THEN base
    ELSE IF u.scheme # "" /\ u.scheme # base.scheme THEN u
    ELSE IF u.netloc # "" THEN Url(base.scheme, u.netloc, u.abs, u.segs)
    ELSE IF u.segs = <<>> /\ ~u.abs THEN base
    ELSE IF u.abs THEN Url(base.scheme, base.netloc, TRUE, u.segs)
    ELSE Url(base.scheme, base.netloc, TRUE,
             (IF base.segs = <<>> THEN <<>> ELSE SubSeq(base.segs, 1, Len(base.segs) - 1))
                 \o u.segs)

\* _is_video_url: the path ends with a video extension, or a video domain occurs
_is_video_url(u) ==
    /\ u # EmptyUrl
    /\ \/ u.segs # <<>> /\ u.segs[Len(u.segs)] \in {"a.mp4", ".mp4"}
       \/ u.netloc = "youtube.com"

\* _create_video_from_url: the title taken from the last path segment
TitleFromUrl(u) ==
    IF u.segs = <<>> THEN "Video"
    ELSE LET last == u.segs[Len(u.segs)]
         IN  IF last = "a.mp4" THEN "a"
             ELSE IF last = "page.html" THEN "page"
             ELSE IF last = ".mp4" THEN ""
             ELSE IF last = "httpdocs" THEN "Video"
             ELSE "v"

\* _determine_video_quality: no text of AllUrls matches a QUALITY_PATTERNS entry
_determine_video_quality(u) == "unknown"

ValidQualities ==
    {"highest", "high", "medium", "low", "2160p", "1440p", "1080p", "720p", "480p",
     "360p", "240p", "144p", "youtube", "vimeo", "unknown"}


\* (variant) the url is accepted as soon as it has a scheme
ValidUrlSchemeOnly(u) == u.scheme # ""

\* VideoInfo.validate: "if not parsed.scheme or not parsed.netloc: raise ValueError"
ValidUrl(u) == u.scheme # "" /\ u.netloc # ""

\* VideoInfo.validate raises nothing (size and duration are never negative here)
validate(v) ==
    /\ v.id # ""
    /\ v.title # ""
    /\ v.url # EmptyUrl
    /\ ValidUrl(v.url)
    /\ v.quality \in ValidQualities

\* VideoInfo(...) inside "try ... except Exception: return None": the one record,
\* or nothing when validate raises
Made(v) == IF validate(v) THEN <<v>> ELSE <<>>

\* "if not video_url.startswith('http'): video_url = urljoin(self.base_url, video_url)"
MakeAbsolute(u) == IF startswith_http(u) THEN u ELSE urljoin(base_url, u)

_create_video_from_url(u) ==
    IF ~_is_video_url(u) THEN <<>>
    ELSE LET url == MakeAbsolute(u)
         IN  Made([id |-> "url", title |-> TitleFromUrl(url), url |-> url,
                   quality |-> _determine_video_quality(url)])

\* an encoded_videos dict is the sequence of its items, in the order of iteration
EncodedKeys == {"1080p", "720p", "480p", "360p", "240p", "youtube", "hls"}

EncodedUrls == {Url("https", "cdn.example", TRUE, <<"a.mp4">>),
                Url("", "", TRUE, <<"v", "a.mp4">>),
                EmptyUrl}

EncodedMaps ==
    {e \in UNION {[1..n -> EncodedKeys \X EncodedUrls] : n \in 0..MaxEncoded} :
        \A i, j \in DOMAIN e : i # j => e[i][1] # e[j][1]}

Has(encoded, q) == \E i \in DOMAIN encoded : encoded[i][1] = q

Get(encoded, q) == encoded[CHOOSE i \in DOMAIN encoded : encoded[i][1] = q][2]

RECURSIVE FirstPresent(_, _)
\* "for q in [...]: if q in encoded: ... break": the first of qs in the map, or none
FirstPresent(qs, encoded) ==
    IF qs = <<>> THEN <<>>
    ELSE IF Has(encoded, Head(qs)) THEN <<Head(qs)>>
    ELSE FirstPresent(Tail(qs), encoded)

\* _parse_video_json, _parse_encoded_videos: the preference list of the loop
PreferredQualities == <<"1080p", "720p", "480p", "360p", "240p">>

\* the (quality, video_url) the two parsers leave the selection with; the url is
\* EmptyUrl when nothing is selected (None and '' are both falsy)
SelectEncoded(encoded) ==
    LET hit == FirstPresent(PreferredQualities, encoded)
        q1  == IF hit = <<>> THEN "unknown" ELSE hit[1]
        u1  == IF hit = <<>> THEN EmptyUrl ELSE Get(encoded, hit[1])
    IN  IF u1 = EmptyUrl /\ encoded # <<>>
        THEN <<encoded[1][1], encoded[1][2]>>
        ELSE <<q1, u1>>

\* video_data has the keys id and display_name, and encoded_videos or video_url
_parse_video_json(video_data) ==
    LET sel == IF video_data.has_encoded THEN SelectEncoded(video_data.encoded_videos)
               ELSE <<_determine_video_quality(video_data.video_url), video_data.video_url>>
    IN  IF sel[2] = EmptyUrl THEN <<>>
        ELSE Made([id |-> "id", title |-> "display_name", url |-> MakeAbsolute(sel[2]),
                   quality |-> sel[1]])

_parse_encoded_videos(data) ==
    IF data.encoded_videos = <<>> THEN <<>>
    ELSE LET sel == SelectEncoded(data.encoded_videos)
         IN  IF sel[2] = EmptyUrl THEN <<>>
             ELSE Made([id |-> "id", title |-> "display_name",
                        url |-> MakeAbsolute(sel[2]), quality |-> sel[1]])

ParseCall(fn, input) ==
    [fn |-> fn, input |-> input, status |-> "called", result |-> <<>>]

InitParse ==
    /\ IdleManager
    /\ OthersUnused("parsing")
    /\ \/ \E u \in AllUrls :
            parsing = ParseCall("_create_video_from_url",
                         [has_encoded |-> FALSE, encoded_videos |-> <<>>, video_url |-> u])
       \/ \E e \in EncodedMaps :
            parsing = ParseCall("_parse_video_json",
                         [has_encoded |-> TRUE, encoded_videos |-> e, video_url |-> EmptyUrl])
       \/ \E u \in EncodedUrls :
            parsing = ParseCall("_parse_video_json",
                         [has_encoded |-> FALSE, encoded_videos |-> <<>>, video_url |-> u])
       \/ \E e \in EncodedMaps :
            parsing = ParseCall("_parse_encoded_videos",
                         [has_encoded |-> TRUE, encoded_videos |-> e, video_url |-> EmptyUrl])

\* the call of fn is pending
Called(fn) == parsing # Unused /\ parsing.fn = fn /\ parsing.status = "called"

Returned(result) == [parsing EXCEPT !.status = "returned", !.result = result]

CreateVideoFromUrl ==
    /\ Called("_create_video_from_url")
    /\ parsing' = Returned(_create_video_from_url(parsing.input.video_url))
    /\ UNCHANGED <<manager, extraction, walk, outline, sanitizing, backoff, sizing, client>>

ParseVideoJson ==
    /\ Called("_parse_video_json")
    /\ parsing' = Returned(_parse_video_json(parsing.input))
    /\ UNCHANGED <<manager, extraction, walk, outline, sanitizing, backoff, sizing, client>>

ParseEncodedVideos ==
    /\ Called("_parse_encoded_videos")
    /\ parsing' = Returned(_parse_encoded_videos(parsing.input))
    /\ UNCHANGED <<manager, extraction, walk, outline, sanitizing, backoff, sizing, client>>

NextParse == CreateVideoFromUrl \/ ParseVideoJson \/ ParseEncodedVideos

SpecParse == InitParse /\ [][NextParse]_vars

\* ---------------------------------------------------- get_course_outline
\* What the platform answers to a request: a status, or no answer in time; with
\* status 200 a body, which is JSON with or without the key "blocks", or HTML.
Answers ==
    {[status |-> 200, body |-> b] : b \in {"blocks", "no_blocks", "html"}}
      \cup {[status |-> st, body |-> "none"] : st \in {0, 401, 403, 404, 429, 500}}

\* EdxApiClient._make_request: what the call raises
\* (status 0: requests.exceptions.Timeout)
_make_request(auth_session, answer) ==
    IF ~auth_session THEN [raises |-> "SessionExpiredError", status_code |-> 0]
    ELSE IF answer.status = 200 THEN [raises |-> "none", status_code |-> 200]
    ELSE IF answer.status = 0 THEN [raises |-> "TimeoutError", status_code |-> 0]
    ELSE IF answer.status = 429
         THEN [raises |-> "RateLimitError", status_code |-> answer.status]
    ELSE IF answer.status \in {401, 403}
         THEN [raises |-> "AuthenticationError", status_code |-> 0]
    ELSE IF answer.status >= 500
         THEN [raises |-> "ServerError", status_code |-> answer.status]
    ELSE [raises |-> "NetworkError", status_code |-> answer.status]

\* exceptions.py: the subclasses of NetworkError and of CourseAccessError
IsNetworkError(exc) ==
    exc \in {"NetworkError", "ConnectionError", "TimeoutError", "RateLimitError",
             "ServerError"}

IsCourseAccessError(exc) ==
    exc \in {"CourseAccessError", "CourseNotFoundError", "EnrollmentRequiredError",
             "CourseNotStartedError", "CourseEndedError"}

\* get_course_outline: its "except NetworkError" clause; any other exception passes
OutlineError(e) ==
    IF IsNetworkError(e.raises)
    THEN IF e.status_code = 403 THEN "EnrollmentRequiredError" ELSE "CourseAccessError"
    ELSE e.raises

InitOutline ==
    /\ IdleManager
    /\ OthersUnused("outline")
    /\ \E au \in BOOLEAN, a \in Answers, p \in Answers :
         outline = [auth_session |-> au, api |-> a, page |-> p, pc |-> "api",
                    api_requests |-> 0, page_requests |-> 0,
                    status |-> "running", error |-> "none", result |-> "none"]

\* the answer to api_client.get(outline_url) arrives: _make_api_request_with_fallback
\* returns it, falls back or raises, and get_course_outline goes on from there
OutlineApiAnswer ==
    /\ outline # Unused
    /\ outline.status = "running"
    /\ outline.pc = "api"
    /\ LET e  == _make_request(outline.auth_session, outline.api)
           o1 == [outline EXCEPT !.api_requests = IF outline.auth_session THEN 1 ELSE 0]
       IN  outline' =
             IF e.raises = "none"
             THEN IF outline.api.body = "blocks"
                  THEN [o1 EXCEPT !.status = "returned", !.result = "api"]
                  ELSE [o1 EXCEPT !.pc = "page"]
             ELSE IF IsNetworkError(e.raises)
             THEN IF e.status_code = 403
                  THEN [o1 EXCEPT !.status = "raised",
                          !.error = OutlineError([raises |-> "EnrollmentRequiredError",
                                                  status_code |-> 0])]
                  ELSE [o1 EXCEPT !.pc = "page"]
             ELSE IF IsCourseAccessError(e.raises) THEN [o1 EXCEPT !.pc = "page"]
             ELSE [o1 EXCEPT !.status = "raised", !.error = OutlineError(e)]
    /\ UNCHANGED <<manager, extraction, walk, parsing, sanitizing, backoff, sizing, client>>

\* _get_outline_from_course_page: the answer to api_client.get(course_info.url)
\* arrives; whatever goes wrong is raised as ParseError
OutlinePageAnswer ==
    /\ outline # Unused
    /\ outline.status = "running"
    /\ outline.pc = "page"
    /\ LET e  == _make_request(outline.auth_session, outline.page)
           o1 == [outline EXCEPT !.page_requests = IF outline.auth_session THEN 1 ELSE 0]
       IN  outline' =
             IF e.raises = "none" /\ outline.page.body = "html"
             THEN [o1 EXCEPT !.status = "returned", !.result = "page"]
             ELSE [o1 EXCEPT !.status = "raised",
                      !.error = OutlineError([raises |-> "ParseError", status_code |-> 0])]
    /\ UNCHANGED <<manager, extraction, walk, parsing, sanitizing, backoff, sizing, client>>

NextOutline == OutlineApiAnswer \/ OutlinePageAnswer

SpecOutline == InitOutline /\ [][NextOutline]_vars

\* ---------------------------------------------------- _sanitize_filename
\* The names given to _sanitize_filename: a few characters, a run of the letter A
\* (none, or long enough for the name to reach MaxFilenameLen), a few characters.
NameChars == {"a", " ", ".", "/"}

Affixes == UNION {[1..n -> NameChars] : n \in 0..MaxAffix}

RunLengths == {0} \cup ((MaxFilenameLen - 2 * MaxAffix)..(MaxFilenameLen + 1))

Names == {pre \o [i \in 1..n |-> "A"] \o suf :
             pre \in Affixes, n \in RunLengths, suf \in Affixes}

InitSanitize ==
    /\ IdleManager
    /\ OthersUnused("sanitizing")
    /\ \E name \in Names :
         sanitizing = [filename |-> name, calls |-> 0, result |-> <<>>, again |-> <<>>]

\* result = _sanitize_filename(filename)
Sanitize ==
    /\ sanitizing # Unused
    /\ sanitizing.calls = 0
    /\ sanitizing' = [sanitizing EXCEPT !.calls = 1,
                                        !.result = _sanitize_filename(sanitizing.filename)]
    /\ UNCHANGED <<manager, extraction, walk, parsing, outline, backoff, sizing, client>>

\* _sanitize_filename called on its own result
SanitizeAgain ==
    /\ sanitizing # Unused
    /\ sanitizing.calls = 1
    /\ sanitizing' = [sanitizing EXCEPT !.calls = 2,
                                        !.again = _sanitize_filename(sanitizing.result)]
    /\ UNCHANGED <<manager, extraction, walk, parsing, outline, backoff, sizing, client>>

NextSanitize == Sanitize \/ SanitizeAgain

SpecSanitize == InitSanitize /\ [][NextSanitize]_vars

\* ------------------------------------ a course with two videos of one name
\* Two videos of one course with distinct ids and urls and the same title: both map
\* to the same target file (VideoInfo.filename is made of title and format only).
SameNameVideo(i, size) == Video(IdNames[i], <<"a">>, <<"x", Letters[i]>>, size)

InitSameName ==
    /\ InitManager
    /\ retry_config = [max_retries |-> 0]
    /\ download_queue = <<>>
    /\ \E sizes \in [1..2 -> 1..MaxSize] :
         videos = [i \in 1..2 |-> SameNameVideo(i, sizes[i])]
    /\ files = [p \in AllPaths |-> NoFile]
    /\ adds_left = 0
    /\ InitRest

NextSameName ==
    \/ DownloadCourse
    \/ \E t \in Tasks : Acquire(t)
    \/ \E t \in Tasks : Response(t)
    \/ \E t \in Tasks : Chunk(t)
    \/ \E t \in Tasks : StreamEnd(t)
    \/ \E t \in Tasks : TransferError(t)
    \/ CourseReturn

SpecSameName == InitSameName /\ [][NextSameName]_vars

\* ------------------------------------------------- the backoff schedule
\* A call of download_video_with_retry seen from its loop: each attempt completes,
\* returns a failed progress or raises, and a failed attempt with retries left is
\* followed by asyncio.sleep(get_delay(attempt)).  Delays are whole units of time.

\* backoff_factor ** attempt (0 ** 0 is 1, as in Python)
RECURSIVE Pow(_, _)
Pow(b, n) == IF n = 0 THEN 1 ELSE b * Pow(b, n - 1)

Min(a, b) == IF a <= b THEN a ELSE b

\* (variant) the delay is not capped
get_delayUncapped(config, attempt) ==
    config.base_delay * Pow(config.backoff_factor, attempt)

\* RetryConfig.get_delay
get_delay(config, attempt) ==
    Min(config.base_delay * Pow(config.backoff_factor, attempt), config.max_delay)

\* RetryConfig is a plain dataclass: no field of it is validated (a factor below one
\* is given by 0)
RetryConfigs ==
    [max_retries : 0..MaxBackoffRetries, base_delay : 0..2, backoff_factor : 0..2,
     max_delay : 1..MaxDelay]

InitBackoff ==
    /\ IdleManager
    /\ OthersUnused("backoff")
    /\ \E config \in RetryConfigs :
         backoff = [config |-> config, pc |-> "attempt", attempt |-> 0, sleeps |-> <<>>,
                    failures |-> 0, status |-> "pending"]

\* the attempt ends without success: download_video returned a failed progress, or
\* raised (both arms test "attempt < max_retries" and sleep get_delay(attempt))
AttemptFails ==
    /\ backoff # Unused
    /\ backoff.pc = "attempt"
    /\ IF HasRetriesLeft(backoff.attempt, backoff.config.max_retries)
       THEN backoff' = [backoff EXCEPT
                           !.pc = "sleeping", !.failures = @ + 1,
                           !.sleeps = Append(@, get_delay(backoff.config, backoff.attempt))]
       ELSE backoff' = [backoff EXCEPT !.pc = "returned", !.failures = @ + 1,
                                       !.status = "failed"]
    /\ UNCHANGED <<manager, extraction, walk, parsing, outline, sanitizing, sizing, client>>

\* the attempt succeeds: the progress is returned at once
AttemptCompletes ==
    /\ backoff # Unused
    /\ backoff.pc = "attempt"
    /\ backoff' = [backoff EXCEPT !.pc = "returned", !.status = "completed"]
    /\ UNCHANGED <<manager, extraction, walk, parsing, outline, sanitizing, sizing, client>>

\* asyncio.sleep(delay) is over: the for loop goes to the next attempt
BackoffOver ==
    /\ backoff # Unused
    /\ backoff.pc = "sleeping"
    /\ backoff' = [backoff EXCEPT !.pc = "attempt", !.attempt = @ + 1]
    /\ UNCHANGED <<manager, extraction, walk, parsing, outline, sanitizing, sizing, client>>

NextBackoff == AttemptFails \/ AttemptCompletes \/ BackoffOver

SpecBackoff == InitBackoff /\ [][NextBackoff]_vars

\* --------------------------------------------------------- _get_content_size
\* The server is given by what it answers to the two probes: the HEAD request and
\* the GET request with "Range: bytes=0-0" each raise (connection error, timeout) or
\* answer with or without the header the code reads.  A header value is a number, or
\* text int() raises ValueError on ("*" for an unknown total).
NoHeader   == [present |-> FALSE, numeric |-> FALSE, value |-> 0]
Header(v)  == [present |-> TRUE, numeric |-> TRUE, value |-> v]
NotANumber == [present |-> TRUE, numeric |-> FALSE, value |-> 0]

HeaderValues == {NoHeader, NotANumber} \cup {Header(n) : n \in 0..MaxSize}

\* what a probe does: it raises, or answers with the header
ProbeAnswers == [raises : {TRUE}, header : {NoHeader}] \cup
                [raises : {FALSE}, header : HeaderValues]

\* "int(content_length) if content_length else 0" and "if content_range: return
\* int(total_size)": the value, or ValueError
ParseInt(h) == IF ~h.numeric THEN [raises |-> TRUE, value |-> 0]
               ELSE [raises |-> FALSE, value |-> h.value]

InitSizing ==
    /\ IdleManager
    /\ OthersUnused("sizing")
    /\ \E head \in ProbeAnswers, get \in ProbeAnswers, session \in BOOLEAN :
         sizing = [session |-> session, head |-> head, get |-> get, pc |-> "called",
                   heads |-> 0, gets |-> 0, result |-> 0, err |-> "none"]

\* the call up to the end of the HEAD probe: the size of content-length is returned,
\* 0 when the header is missing; only an exception leads to the range GET
ProbeHead ==
    /\ sizing # Unused
    /\ sizing.pc = "called"
    /\ IF ~sizing.session
       THEN sizing' = [sizing EXCEPT !.pc = "raised", !.err = "DownloadError"]
       ELSE LET h == sizing.head
                n == ParseInt(h.header)
            IN  IF h.raises \/ (h.header.present /\ n.raises)
                THEN sizing' = [sizing EXCEPT !.pc = "fallback", !.heads = @ + 1]
                ELSE sizing' = [sizing EXCEPT !.pc = "returned", !.heads = @ + 1,
                                              !.result = IF h.header.present THEN n.value
                                                         ELSE 0]
    /\ UNCHANGED <<manager, extraction, walk, parsing, outline, sanitizing, backoff, client>>

\* the range GET: the total of content-range, 0 when the header is missing or the
\* request or the conversion raises
ProbeGet ==
    /\ sizing # Unused
    /\ sizing.pc = "fallback"
    /\ LET g == sizing.get
           n == ParseInt(g.header)
       IN  sizing' = [sizing EXCEPT !.pc = "returned", !.gets = @ + 1,
                                    !.result = IF ~g.raises /\ g.header.present /\ ~n.raises
                                               THEN n.value ELSE 0]
    /\ UNCHANGED <<manager, extraction, walk, parsing, outline, sanitizing, backoff, client>>

NextSizing == ProbeHead \/ ProbeGet

SpecSizing == InitSizing /\ [][NextSizing]_vars

\* ------------------------------------------- the response cache of the client
\* An EdxApiClient over an empty cache directory.  A cache file is named after the
\* md5 of url and params (taken as injective; no call passes params here), so the
\* cache is a map from url to entry.  A response body is parsed JSON: the empty
\* object {} is <<>>, an object with keys is the sequence of its keys.
ApiUrls == {"/api/test", "/api/course_list"}

EmptyJson == <<>>
Bodies    == {EmptyJson, <<"cached">>, <<"other">>}

default_ttl == 300

\* ResponseCache._determine_ttl: the first endpoint type found in the url
_determine_ttl(url) == IF url = "/api/course_list" THEN 1800 ELSE default_ttl

\* the clock moves in steps of one default time-to-live
TickSeconds == default_ttl

NoEntry == [exists |-> FALSE, response |-> EmptyJson, expires_at |-> 0]

NoResponse   == [some |-> FALSE, response |-> EmptyJson]
Cached(data) == [some |-> TRUE, response |-> data]

\* ResponseCache.get: the cached response or None, and the cache it leaves (an
\* expired file is removed)
cache_get(cache, url, now) ==
    IF ~cache[url].exists THEN [value |-> NoResponse, cache |-> cache]
    ELSE IF now > cache[url].expires_at
    THEN [value |-> NoResponse, cache |-> [cache EXCEPT ![url] = NoEntry]]
    ELSE [value |-> Cached(cache[url].response), cache |-> cache]

\* ResponseCache.set
cache_set(cache, url, response, now) ==
    [cache EXCEPT ![url] = [exists |-> TRUE, response |-> response,
                            expires_at |-> now + _determine_ttl(url)]]

\* _make_request: "if cached_response:" (None and an empty dict are both false)
IsTruthy(cached_response) == cached_response.some /\ cached_response.response # EmptyJson

InitClient ==
    /\ IdleManager
    /\ OthersUnused("client")
    /\ client = [cache |-> [u \in ApiUrls |-> NoEntry], now |-> 0, ticks |-> 0,
                 calls |-> 0, requests |-> 0,
                 last |-> [method |-> None, url |-> None, use_cache |-> FALSE,
                           sent |-> FALSE, status |-> 0, raises |-> "none",
                           result |-> EmptyJson]]

\* _make_request(method, url, use_cache=...) with a valid auth session; the server,
\* if asked, answers with a status and (for 200) a JSON body
MakeRequest ==
    /\ client # Unused
    /\ client.calls < MaxRequests
    /\ \E method \in {"GET", "POST"}, url \in ApiUrls, use_cache \in BOOLEAN,
          status \in {200, 404, 500}, body \in Bodies :
         LET caching == method = "GET" /\ use_cache
             g == IF caching THEN cache_get(client.cache, url, client.now)
                  ELSE [value |-> NoResponse, cache |-> client.cache]
             call == [method |-> method, url |-> url, use_cache |-> use_cache]
         IN  IF caching /\ IsTruthy(g.value)
             THEN client' = [client EXCEPT
                               !.calls = @ + 1, !.cache = g.cache,
                               !.last = [method |-> method, url |-> url,
                                         use_cache |-> use_cache, sent |-> FALSE,
                                         status |-> 0, raises |-> "none",
                                         result |-> g.value.response]]
             ELSE LET e == _make_request(TRUE, [status |-> status, body |-> "none"])
                  IN  /\ status # 200 => body = EmptyJson
                      /\ client' = [client EXCEPT
                            !.calls = @ + 1, !.requests = @ + 1,
                            !.cache = IF status = 200 /\ caching
                                      THEN cache_set(g.cache, url, body, client.now)
                                      ELSE g.cache,
                            !.last = [method |-> method, url |-> url,
                                      use_cache |-> use_cache, sent |-> TRUE,
                                      status |-> status, raises |-> e.raises,
                                      result |-> IF status = 200 THEN body ELSE EmptyJson]]
    /\ UNCHANGED <<manager, extraction, walk, parsing, outline, sanitizing, backoff, sizing>>

\* time passes
Tick ==
    /\ client # Unused
    /\ client.ticks < MaxTicks
    /\ client' = [client EXCEPT !.ticks = @ + 1, !.now = @ + TickSeconds]
    /\ UNCHANGED <<manager, extraction, walk, parsing, outline, sanitizing, backoff, sizing>>

NextClient == MakeRequest \/ Tick

SpecClient == InitClient /\ [][NextClient]_vars

\* -------------------------------------- a course with two videos of one id
\* Two videos found in different blocks: _parse_video_element names a video after
\* its index within its block ("video-0" for the first of each), so the ids are
\* equal while titles and urls differ.
SameIdVideo(i, size) == Video("video-0", <<Letters[i]>>, <<"x", Letters[i]>>, size)

InitSameId ==
    /\ InitManager
    /\ retry_config = [max_retries |-> 0]
    /\ download_queue = <<>>
    /\ \E sizes \in [1..2 -> 1..MaxSize] :
         videos = [i \in 1..2 |-> SameIdVideo(i, sizes[i])]
    /\ files = [p \in AllPaths |-> NoFile]
    /\ adds_left = 0
    /\ InitRest

SpecSameId == InitSameId /\ [][NextSameName]_vars

\* ------------------------------------------------------------- properties
\* the calls that hold a permit of download_semaphore
Inflight == {p \in Procs \ Callers : proc[p].pc \in {"requesting", "streaming", "sleeping"}}

Path(p) == FilePath(proc[p].dir, proc[p].video)

\* C1: at every moment at most concurrent_downloads videos are inside a download
\* (hold the download semaphore), course tasks and queue worker taken together.
C1_ConcurrencyBound == Cardinality(Inflight) <= options.concurrent_downloads

\* the semaphore is exhausted by a course task and the queue worker while a task waits
C1_Witness ==
    /\ Cardinality(Inflight) = options.concurrent_downloads
    /\ options.concurrent_downloads >= 2
    /\ Worker \in Inflight
    /\ \E t \in Tasks : proc[t].pc = "waiting"

\* C2: a download_video_with_retry call whose every attempt failed has called
\* download_video exactly max_retries + 1 times, has recorded that count in
\* failed_downloads under the video's id and returns a progress that is not completed;
\* no call makes more than max_retries + 1 attempts.
C2_RetryTermination ==
    LET w == proc[Worker]
        R == retry_config.max_retries
    IN  /\ w.calls <= R + 1
        /\ (w.pc = "loop" /\ w.calls >= 1 /\ w.fails = w.calls)
              => /\ w.calls = R + 1
                 /\ w.video.id \in DOMAIN failed_downloads
                 /\ failed_downloads[w.video.id] = R + 1
                 /\ w.progress.status # "completed"

\* a call returned after a first attempt and at least one retry, all failed
C2_Witness ==
    /\ proc[Worker].pc = "loop"
    /\ retry_config.max_retries >= 1
    /\ proc[Worker].fails = retry_config.max_retries + 1
    /\ proc[Worker].calls = retry_config.max_retries + 1
    /\ proc[Worker].progress.status = "failed"

\* C3 (as claimed): when download_course returns, completed_videos + failed_videos
\* = total_videos.
C3_AllAccounted ==
    cpc = "returned" =>
        course_progress.completed_videos + course_progress.failed_videos
            = course_progress.total_videos

\* C4: a failed download cancels or skips no other video: no task is cancelled unless
\* download_course itself was cancelled, and when download_course returns every video
\* that passed the existing-file filter has been started and is completed or failed.
C4_FailureIsolated ==
    /\ ~cancel_requested => \A t \in Tasks : proc[t].pc # "cancelled"
    /\ cpc = "returned" =>
          \A t \in Tasks : proc[t].pc # "idle" =>
              /\ proc[t].pc \in {"done", "raised"}
              /\ proc[t].progress.status \in {"completed", "failed"}

\* download_course has returned with one video failed in its transfer and another
\* one downloaded over the network
C4_Witness ==
    /\ cpc = "returned"
    /\ \E t, u \in Tasks :
          /\ proc[t].pc = "done" /\ proc[t].progress.status = "failed"
          /\ proc[t].requests = 1
          /\ proc[u].pc = "done" /\ proc[u].progress.status = "completed"
          /\ proc[u].requests = 1

\* C5 (as claimed): once a download of the course has raised DiskSpaceError, no waiting
\* video issues its request.
C5_NoStartAfterDiskSpaceError ==
    [][(\E t \in Tasks : proc[t].pc = "raised")
          => \A u \in Tasks : proc[u].pc = "waiting" => proc'[u].pc # "requesting"]_vars

\* C6: resuming a partial file of k bytes of a video of known size T (0 < k < T) asks
\* for the range bytes=k-, appends, and when the answer is 206 with the T - k missing
\* bytes the file grows byte for byte into the T bytes of the content, downloaded_size
\* counting the same bytes; at the end of the body both are T.
C6_ResumeCorrect ==
    \A p \in Procs :
        LET pr == proc[p]
            k  == FileSize(pr.file0)
            T  == pr.video.size
        IN  (/\ pr.pc = "streaming"
             /\ options.resume_enabled
             /\ pr.file0.exists /\ pr.file0.data = Content(k)
             /\ 0 < k /\ k < T
             /\ pr.resp_status = 206
             /\ pr.resp_len = T - k)
            => /\ pr.range = <<"bytes=", k, "-">>
               /\ pr.mode = "ab"
               /\ files[Path(p)].exists
               /\ files[Path(p)].data = Content(T - Len(pr.body))
               /\ pr.progress.downloaded_size = T - Len(pr.body)
               /\ pr.progress.total_size = T

\* the whole 206 body of a resumed transfer has been written
C6_Witness ==
    \E p \in Procs :
        /\ proc[p].pc = "streaming"
        /\ options.resume_enabled
        /\ proc[p].file0.exists
        /\ 0 < FileSize(proc[p].file0) /\ FileSize(proc[p].file0) < proc[p].video.size
        /\ proc[p].resp_status = 206
        /\ proc[p].resp_len = proc[p].video.size - FileSize(proc[p].file0)
        /\ proc[p].body = <<>>
        /\ files[Path(p)].data = Content(proc[p].video.size)

\* C7: a download whose known total size exceeds the free space never has a request
\* in flight; the course task that ran it has raised DiskSpaceError with no request
\* made and the destination file as it was.
C7_DiskSpacePreflight ==
    /\ \A p \in Procs : proc[p].pc \in {"requesting", "streaming"}
                            => proc[p].video.size <= free_space
    /\ \A t \in Tasks :
          (/\ proc[t].pc \in {"requesting", "streaming", "done", "raised"}
           /\ ~(proc[t].file0.exists /\ ~options.resume_enabled)
           /\ proc[t].video.size > free_space)
          => /\ proc[t].pc = "raised"
             /\ proc[t].requests = 0
             /\ files[Path(t)] = proc[t].file0

\* a task has raised DiskSpaceError over an existing partial file
C7_Witness ==
    \E t \in Tasks :
        /\ proc[t].pc = "raised"
        /\ proc[t].video.size > free_space
        /\ proc[t].file0.exists
        /\ proc[t].requests = 0

\* C8: when download_video_with_retry starts for a video whose (url, title) an
\* earlier call downloaded and whose file still exists, it returns completed at once,
\* without calling download_video and without a request.
C8_DuplicateSkip ==
    [][(/\ proc[Worker].pc = "waiting"
        /\ proc'[Worker].pc # "waiting"
        /\ \E s \in succeeded : s[2] = proc[Worker].video.url
                                /\ s[3] = proc[Worker].video.title
        /\ files[Path(Worker)].exists)
       => /\ proc'[Worker].pc = "loop"
          /\ proc'[Worker].progress.status = "completed"
          /\ proc'[Worker].calls = 0
          /\ proc'[Worker].requests = 0]_vars

\* a call for a video with another id than the one downloaded was short-circuited
C8_Witness ==
    /\ proc[Worker].pc = "loop"
    /\ proc[Worker].dup
    /\ proc[Worker].calls = 0
    /\ proc[Worker].progress.status = "completed"
    /\ \E s \in succeeded : /\ s[2] = proc[Worker].video.url
                            /\ s[3] = proc[Worker].video.title
                            /\ s[1] # proc[Worker].video.id

\* C9 (as claimed): the progress of a transfer cancelled mid-stream is 'paused' and
\* the video is not counted in failed_videos.
C9_CancelledIsPaused ==
    \A t \in Tasks :
        proc[t].interrupted =>
            /\ proc[t].progress.status = "paused"
            /\ course_progress.failed_videos = 0

\* C10 (as claimed): after a shutdown request no waiting transfer is started.
C10_NoStartAfterShutdown ==
    [][shutdown_requested
          => \A t \in Tasks : proc[t].pc = "waiting" => proc'[t].pc # "requesting"]_vars

\* C11 (as claimed): a video of download_course is counted failed only after the
\* retry wrapper has attempted it max_retries + 1 times: a course task that ends
\* failed on a transfer error has made max_retries + 1 requests.
C11_CourseRetries ==
    \A t \in Tasks :
        (/\ proc[t].pc = "done"
         /\ proc[t].progress.status = "failed"
         /\ ~proc[t].interrupted
         /\ proc[t].requests >= 1)
        => proc[t].requests = retry_config.max_retries + 1

\* the course tasks whose download_video returned a progress with status st
Ended(st) == {i \in 1..Len(videos) : proc[i].pc = "done" /\ proc[i].progress.status = st}

\* C12: when download_course returns and every video was downloaded by a task over a
\* path that held no file (none skipped, none raising DiskSpaceError), completed_videos
\* is the number of tasks that returned completed, failed_videos the number that
\* returned failed, and success_rate is 100 * (total_videos - failed_videos) /
\* total_videos: 1, 1 and 50 for one success and one failure, whatever the interleaving.
C12_CountersExact ==
    (/\ cpc = "returned"
     /\ Len(videos) >= 1
     /\ \A i \in 1..Len(videos) : proc[i].pc = "done" /\ ~proc[i].file0.exists)
    => /\ course_progress.total_videos = Len(videos)
       /\ course_progress.completed_videos = Cardinality(Ended("completed"))
       /\ course_progress.failed_videos = Cardinality(Ended("failed"))
       /\ success_rate(course_progress)
             = (100 * (Len(videos) - Cardinality(Ended("failed")))) \div Len(videos)
       /\ (Len(videos) = 2 /\ Cardinality(Ended("completed")) = 1
              /\ Cardinality(Ended("failed")) = 1)
             => /\ course_progress.completed_videos = 1
                /\ course_progress.failed_videos = 1
                /\ success_rate(course_progress) = 50

\* a course of two new videos has returned with one downloaded and one failed
C12_Witness ==
    /\ cpc = "returned"
    /\ Len(videos) = 2
    /\ \A i \in 1..2 : proc[i].pc = "done" /\ ~proc[i].file0.exists /\ proc[i].requests = 1
    /\ Cardinality(Ended("completed")) = 1
    /\ Cardinality(Ended("failed")) = 1
    /\ success_rate(course_progress) = 50

\* C13 (as claimed): while a transfer streams a body of the size the server owes
\* (the whole content on 200, the rest of it on 206) and total_size is known and
\* nonzero, downloaded_size <= total_size.
C13_DownloadedWithinTotal ==
    \A p \in Procs :
        LET pr == proc[p]
            T  == pr.progress.total_size
        IN  (/\ pr.pc = "streaming"
             /\ T > 0
             /\ T = pr.video.size
             /\ \/ pr.resp_status = 200 /\ pr.resp_len = T
                \/ pr.resp_status = 206 /\ pr.resp_len = T - pr.resume_pos)
            => pr.progress.downloaded_size <= T

\* C14 (as claimed): a download_video call that made its request and reports
\* 'completed' for a video of known size has downloaded_size = total_size: a body
\* that ended short of the total is never reported completed.
C14_CompletedIsFull ==
    \A p \in Procs :
        (/\ proc[p].pc \in {"done", "loop"}
         /\ proc[p].requests >= 1
         /\ proc[p].progress.status = "completed"
         /\ proc[p].progress.total_size > 0)
        => proc[p].progress.downloaded_size = proc[p].progress.total_size

\* C15: when the request or the stream of _download_file fails for a reason other
\* than cancellation, the progress becomes 'failed' and DownloadError is raised; the
\* file at the destination is removed if resume is disabled and is left as the
\* transfer wrote it if resume is enabled.
C15_FailureHandling ==
    [][\A p \in Procs :
          (/\ proc[p].pc \in {"requesting", "streaming"}
           /\ proc'[p].pc \notin {"requesting", "streaming"}
           /\ proc'[p].progress.status # "completed"
           /\ ~proc'[p].interrupted)
          => /\ proc'[p].progress.status = "failed"
             /\ proc'[p].err = "DownloadError"
             /\ files'[Path(p)] = IF options.resume_enabled THEN files[Path(p)]
                                  ELSE NoFile]_vars

\* with resume disabled a transfer failed after it wrote a byte: the file is gone
C15_Witness ==
    \E p \in Procs :
        /\ ~options.resume_enabled
        /\ proc[p].err = "DownloadError"
        /\ proc[p].progress.status = "failed"
        /\ proc[p].progress.downloaded_size >= 1
        /\ ~files[Path(p)].exists

\* C16: a download_video_with_retry call that returned the completed progress of one
\* of its attempts made no attempt after it (every earlier attempt failed), the id of
\* its video is not in failed_downloads and the hash of its (url, title) is in the
\* duplicate tracker with the path of the file.
C16_SuccessClears ==
    LET w == proc[Worker]
    IN  (/\ w.pc = "loop"
         /\ w.calls >= 1
         /\ ~w.dup
         /\ w.progress.status = "completed")
        => /\ w.calls = w.fails + 1
           /\ w.video.id \notin DOMAIN failed_downloads
           /\ video_hash(w.video) \in DOMAIN duplicate_tracker
           /\ duplicate_tracker[video_hash(w.video)] = Path(Worker)

\* a call returned completed from its second attempt
C16_Witness ==
    /\ proc[Worker].pc = "loop"
    /\ proc[Worker].calls = 2
    /\ proc[Worker].fails = 1
    /\ ~proc[Worker].dup
    /\ proc[Worker].progress.status = "completed"
    /\ proc[Worker].requests = 1
    /\ video_hash(proc[Worker].video) \in DOMAIN duplicate_tracker

\* C17 (as claimed): of two concurrent download_video_with_retry calls for videos
\* with the same url and title at most one performs a transfer: the two are never
\* both between their request and the end of their stream.
C17_AtMostOneTransfer ==
    \A c, d \in Callers :
        (/\ c # d
         /\ proc[c].video.url = proc[d].video.url
         /\ proc[c].video.title = proc[d].video.title
         /\ proc[c].pc \in {"requesting", "streaming"})
        => proc[d].pc \notin {"requesting", "streaming"}

\* C18 (as claimed): the progress callback is invoked exactly once for every video of
\* download_course that ends completed or failed, once its result is in the course
\* progress, and not at all before the video is terminal.
C18_CallbackOncePerVideo ==
    \A t \in Tasks :
        /\ proc[t].pc \notin {"done", "raised"} => proc[t].callbacks = 0
        /\ proc[t].callbacks >= 1 => proc[t].video.id \in DOMAIN course_progress.video_progress
        /\ (/\ proc[t].pc \in {"done", "raised"}
            /\ proc[t].progress.status \in {"completed", "failed"})
           => proc[t].callbacks = 1

\* C19: with resume enabled, the step of download_course that schedules the downloads
\* leaves out exactly the videos whose file exists with at least the video's size
\* (any existing file when the size is not known): a video whose file is missing or
\* shorter than its size gets its task, and the kept videos are in input order.
C19_FilterRule ==
    [][(cpc = "idle" /\ cpc' # "idle" /\ options.resume_enabled)
          => LET keep == _filter_existing_videos(videos, files, TRUE)
             IN  /\ \A i \in 1..Len(videos) :
                       LET f == files[FilePath(CourseDir, videos[i])]
                       IN  /\ (proc'[i].pc = "idle")
                                  <=> (f.exists /\ FileSize(f) >= videos[i].size)
                           /\ (i \in Range(keep)) <=> (proc'[i].pc = "waiting")
                 /\ \A a, b \in DOMAIN keep : a < b => keep[a] < keep[b]]_vars

\* download_course has skipped a complete file and scheduled a video whose file is a
\* shorter partial one
C19_Witness ==
    /\ cpc = "gather"
    /\ options.resume_enabled
    /\ \E i, j \in 1..Len(videos) :
          /\ proc[i].pc = "idle"
          /\ files[FilePath(CourseDir, videos[i])].exists
          /\ proc[j].pc = "waiting"
          /\ files[Path(j)].exists
          /\ FileSize(files[Path(j)]) < proc[j].video.size

\* C20: the item process_download_queue pops to download next was in the queue and
\* no item left in the queue has a strictly higher priority, whatever the order in
\* which add_to_download_queue was called.
C20_PriorityOrder ==
    [][(proc[Worker].pc = "loop" /\ proc'[Worker].pc = "waiting")
          => /\ \E i \in DOMAIN download_queue :
                   /\ download_queue[i].video = proc'[Worker].video
                   /\ download_queue[i].priority = proc'[Worker].priority
             /\ Len(download_queue') = Len(download_queue) - 1
             /\ \A i \in DOMAIN download_queue' :
                   download_queue'[i].priority <= proc'[Worker].priority]_vars

\* after all the adds, the item of priority 1 was popped ahead of one of priority 0
\* that is still queued
C20_Witness ==
    /\ adds_left = 0
    /\ proc[Worker].pc = "waiting"
    /\ proc[Worker].priority = 1
    /\ download_queue # <<>>
    /\ \A i \in DOMAIN download_queue : download_queue[i].priority = 0

\* the order in which the four strategies are to be tried
FixedOrder ==
    <<"_extract_from_api_data", "_extract_from_html_parsing",
      "_extract_from_javascript", "_extract_from_video_elements">>

\* the strategy at position i raised or returned no record
YieldsNothing(i) ==
    LET o == extraction.outcomes[FixedOrder[i]]
    IN  o.raises # "none" \/ o.videos = <<>>

\* C21: the strategies are invoked in the fixed order api data, html parsing,
\* javascript, video elements; the call returns the records of the first strategy
\* that yields at least one, exactly those, and has invoked no strategy after it.
C21_FirstStrategyWins ==
    /\ \E k \in 0..4 : extraction.invoked = SubSeq(FixedOrder, 1, k)
    /\ extraction.status = "returned" =>
          LET k == Len(extraction.invoked)
          IN  /\ k >= 1
              /\ \A j \in 1..(k - 1) : YieldsNothing(j)
              /\ ~YieldsNothing(k)
              /\ extraction.result = extraction.outcomes[FixedOrder[k]].videos
              /\ \A i \in DOMAIN extraction.result :
                    extraction.result[i].strategy = FixedOrder[k]

\* the third strategy returned its records after the first raised and the second
\* found nothing, although the fourth would have found records too
C21_Witness ==
    /\ extraction.status = "returned"
    /\ extraction.invoked = SubSeq(FixedOrder, 1, 3)
    /\ extraction.outcomes[FixedOrder[1]].raises # "none"
    /\ extraction.outcomes[FixedOrder[2]].raises = "none"
    /\ extraction.outcomes[FixedOrder[4]].videos # <<>>
    /\ Len(extraction.result) = 2

\* C22: the call raises only VideoNotFoundError, and only after all four strategies
\* were invoked and each raised or returned no record; a strategy that raises does
\* not end the call, the next one is tried.
C22_NotFoundOnlyAtEnd ==
    /\ extraction.status = "raised" =>
          /\ extraction.error = "VideoNotFoundError"
          /\ extraction.invoked = FixedOrder
          /\ \A i \in 1..4 : YieldsNothing(i)
    /\ (extraction.status = "running" /\ extraction.invoked # <<>>) =>
          /\ extraction.pos = Len(extraction.invoked) + 1
          /\ \A i \in 1..Len(extraction.invoked) : YieldsNothing(i)

\* VideoNotFoundError after strategies that raised and strategies that found nothing
C22_Witness ==
    /\ extraction.status = "raised"
    /\ extraction.error = "VideoNotFoundError"
    /\ extraction.outcomes[FixedOrder[1]].raises = "NetworkError"
    /\ extraction.outcomes[FixedOrder[2]].raises = "none"
    /\ extraction.outcomes[FixedOrder[3]].raises = "ParseError"

\* the positions of all_videos that hold the first record of their url
FirstOfUrl(all) == {i \in DOMAIN all : \A j \in 1..(i - 1) : all[j].url # all[i].url}

\* the k-th smallest element of a set of numbers
Kth(S, k) == CHOOSE i \in S : Cardinality({j \in S : j <= i}) = k

\* C23: the list _extract_all_videos returns has no two records of one url; it holds,
\* for every url found, the first record of that url in block-iteration order, and
\* the records it keeps are in their original relative order.
C23_UniqueByUrlFirstKept ==
    (walk # Unused /\ walk.status = "returned") =>
        LET all    == walk.all_videos
            firsts == FirstOfUrl(all)
            res    == walk.result
        IN  /\ \A i, j \in DOMAIN res : i # j => res[i].url # res[j].url
            /\ Len(res) = Cardinality(firsts)
            /\ \A k \in DOMAIN res : res[k] = all[Kth(firsts, k)]
            /\ \A i, j \in DOMAIN all :
                  (i < j /\ all[i].block = all[j].block) => all[i].index < all[j].index
            /\ \A i, j \in DOMAIN all : i < j => all[i].block <= all[j].block

\* a url found twice in the first block and again in the second; another url found
\* between them: the result keeps the first record of each, in order
C23_Witness ==
    /\ walk # Unused
    /\ walk.status = "returned"
    /\ Len(walk.all_videos) = 4
    /\ walk.all_videos[1].url = walk.all_videos[3].url
    /\ walk.all_videos[2].url # walk.all_videos[1].url
    /\ walk.all_videos[3].block = 2
    /\ Len(walk.result) = 2
    /\ walk.result[2] = walk.all_videos[2]

\* C24: a block whose extraction fails does not end the walk: as long as no shutdown
\* is requested every eligible block (type video, sequential or vertical, with a
\* url) is extracted, in order, and the records of those that succeed are collected.
C24_FailureSkipsOneBlock ==
    walk # Unused =>
        LET seen == IF walk.status = "returned" /\ ~shutdown_requested
                    THEN Len(walk.blocks) ELSE walk.pos - 1
        IN  /\ walk.pos - 1 <= seen
            /\ (walk.status = "returned" /\ ~shutdown_requested) =>
                   walk.pos = Len(walk.blocks) + 1
            /\ Range(walk.invoked) =
                   {b \in 1..(walk.pos - 1) :
                       /\ walk.blocks[b].type \in {"video", "sequential", "vertical"}
                       /\ walk.blocks[b].student_view_url # ""}
            /\ \A b \in Range(walk.invoked) :
                  ~walk.blocks[b].found.raises =>
                     \A k \in DOMAIN walk.blocks[b].found.urls :
                        \E i \in DOMAIN walk.all_videos :
                           /\ walk.all_videos[i].block = b
                           /\ walk.all_videos[i].index = k
                           /\ walk.all_videos[i].url = walk.blocks[b].found.urls[k]

\* the first block's extraction raised and the records of the second are returned
C24_Witness ==
    /\ walk # Unused
    /\ walk.status = "returned"
    /\ Len(walk.blocks) = 2
    /\ walk.blocks[1].found.raises
    /\ walk.blocks[1].type = "sequential"
    /\ walk.invoked = <<1, 2>>
    /\ Len(walk.result) = 2
    /\ walk.result[1].block = 2

\* the url a call of one of the three record makers starts from: its argument, or
\* the url it selected from video_data
UrlGiven ==
    IF parsing.fn = "_create_video_from_url" \/ ~parsing.input.has_encoded
    THEN parsing.input.video_url
    ELSE SelectEncoded(parsing.input.encoded_videos)[2]

ClaimedKey(encoded) ==
    IF \E i \in DOMAIN encoded : encoded[i][1] = "1080p" THEN "1080p"
    ELSE IF \E i \in DOMAIN encoded : encoded[i][1] = "720p" THEN "720p"
    ELSE IF \E i \in DOMAIN encoded : encoded[i][1] = "480p" THEN "480p"
    ELSE IF \E i \in DOMAIN encoded : encoded[i][1] = "360p" THEN "360p"
    ELSE IF \E i \in DOMAIN encoded : encoded[i][1] = "240p" THEN "240p"
    ELSE encoded[1][1]

\* C28: for a non-empty encoded_videos map (of non-empty urls) the parser returns a
\* record whose quality is the first key present among 1080p, 720p, 480p, 360p,
\* 240p, or the key of the first entry when none of them is present, and whose url
\* is the url of that key.
C28_PreferredQualitySelected ==
    (/\ parsing # Unused
     /\ parsing.status = "returned"
     /\ parsing.input.has_encoded
     /\ parsing.input.encoded_videos # <<>>
     /\ \A i \in DOMAIN parsing.input.encoded_videos :
           parsing.input.encoded_videos[i][2] # EmptyUrl) =>
        LET encoded == parsing.input.encoded_videos
            key     == ClaimedKey(encoded)
            given   == encoded[CHOOSE i \in DOMAIN encoded : encoded[i][1] = key][2]
        IN  /\ parsing.result # <<>>
            /\ parsing.result[1].quality = key
            /\ parsing.result[1].url.segs = given.segs

\* the calls that returned with their transfer unfinished
Unfinished ==
    {c \in Callers : /\ proc[c].pc = "returned"
                     /\ proc[c].progress.status \in {"downloading", "paused", "failed"}}

\* C26: the manifest written when the context exits has, for every video whose
\* transfer is unfinished, an entry with its filename, downloaded bytes, total bytes
\* and status, and the next manager's resume_data holds that entry.
C26_ManifestHasUnfinished ==
    \A c \in Unfinished :
        /\ resume_data_file.exists =>
              /\ proc[c].video.id \in DOMAIN resume_data_file.active_downloads
              /\ resume_data_file.active_downloads[proc[c].video.id] =
                    [filename        |-> _create_safe_filename(proc[c].video),
                     downloaded_size |-> proc[c].progress.downloaded_size,
                     total_size      |-> proc[c].progress.total_size,
                     status          |-> proc[c].progress.status]
        /\ resume_data.run = 2 =>
              /\ proc[c].video.id \in DOMAIN resume_data.data.active_downloads
              /\ resume_data.data.active_downloads[proc[c].video.id] =
                    resume_data_file.active_downloads[proc[c].video.id]

\* C27: when the course-outline request is answered with HTTP 403, get_course_outline
\* fails with EnrollmentRequiredError and the course page is never requested.
C27_ForbiddenIsEnrollmentRequired ==
    (/\ outline # Unused
     /\ outline.api_requests = 1
     /\ outline.api.status = 403) =>
        /\ outline.status = "raised"
        /\ outline.error = "EnrollmentRequiredError"
        /\ outline.page_requests = 0

\* the characters a file name must not contain
Forbidden == {"<", ">", ":", "\"", "/", "\\", "|", "?", "*"}

\* C29: _sanitize_filename returns a non-empty name of at most 200 characters that
\* contains none of < > : " / \ | ? * and neither starts nor ends with a space or a
\* dot; it is a stretch of the given name with each of those characters replaced by
\* "_", or "video" when nothing remains; sanitizing the result again changes nothing.
C29_SanitizedName ==
    (sanitizing # Unused /\ sanitizing.calls >= 1) =>
        LET name == sanitizing.filename
            res  == sanitizing.result
        IN  /\ res # <<>>
            /\ Len(res) <= 200
            /\ \A i \in DOMAIN res : res[i] \notin Forbidden
            /\ res[1] \notin {" ", "."}
            /\ res[Len(res)] \notin {" ", "."}
            /\ \/ \E k \in 0..Len(name) :
                     /\ k + Len(res) <= Len(name)
                     /\ \A i \in DOMAIN res :
                           res[i] = IF name[k + i] \in Forbidden THEN "_" ELSE name[k + i]
                     /\ \A i \in 1..k : name[i] \in {" ", "."}
                     /\ \A i \in (k + Len(res) + 1)..Len(name) :
                           i <= 200 => name[i] \in {" ", "."}
               \/ /\ res = <<"v", "i", "d", "e", "o">>
                  /\ \A i \in DOMAIN name : i <= 200 => name[i] \in {" ", "."}
            /\ sanitizing.calls = 2 => sanitizing.again = res

\* a name of more than 200 characters whose 200th is a space: cut, then stripped
C29_Witness ==
    /\ sanitizing # Unused
    /\ sanitizing.calls = 2
    /\ Len(sanitizing.filename) > 200
    /\ sanitizing.filename[200] = " "
    /\ sanitizing.filename[1] = "/"
    /\ Len(sanitizing.result) = 199
    /\ sanitizing.result[1] = "_"

\* the step is a call of download_video by p (not a duplicate short-circuit, not a
\* cancellation while waiting)
CallsDownloadVideo(p) ==
    /\ \/ proc[p].pc \in {"waiting", "sleeping"}
       \/ p \in Callers /\ proc[p].pc = "idle"
    /\ proc'[p] # proc[p]
    /\ proc'[p].pc # "cancelled"
    /\ ~proc'[p].dup

\* the destination file holds at least the known nonzero total size as p calls
\* download_video with resume enabled
CalledOverCompleteFile(p) ==
    /\ CallsDownloadVideo(p)
    /\ options.resume_enabled
    /\ files[FilePath(proc'[p].dir, proc'[p].video)].exists
    /\ proc'[p].video.size > 0
    /\ FileSize(files[FilePath(proc'[p].dir, proc'[p].video)]) >= proc'[p].video.size

\* the call returned completed in the step it was made in: no request, no file changed
ReturnedAtOnce(p) ==
    /\ files' = files
    /\ proc'[p].requests = 0
    /\ proc'[p].pc \in {"done", "loop", "returned"}
    /\ proc'[p].progress.status = "completed"
    /\ proc'[p].progress.downloaded_size =
          FileSize(files[FilePath(proc'[p].dir, proc'[p].video)])
    /\ proc'[p].err = "none"

\* C30: with resume enabled, when the destination file already holds at least the
\* known nonzero total size and that total does not exceed the free space of the
\* directory, the download returns at once, completed: no request is issued and no
\* file is changed.  (When the total exceeds the free space the disk-space check,
\* which comes first, raises DiskSpaceError; no request is issued and no file is
\* changed then either.)
C30_AlreadyCompleteReturns ==
    [][\A p \in Procs :
          CalledOverCompleteFile(p) =>
             /\ files' = files
             /\ proc'[p].requests = 0
             /\ proc'[p].video.size <= free_space => ReturnedAtOnce(p)
             /\ proc'[p].video.size > free_space =>
                   /\ proc'[p].progress.status = "failed"
                   /\ proc'[p].pc # "requesting"]_vars

\* a direct call returned completed on its second attempt without a request: the
\* first attempt had left the whole file
C30_Witness ==
    \E c \in Callers :
        /\ options.resume_enabled
        /\ proc[c].pc = "returned"
        /\ proc[c].attempt = 1
        /\ proc[c].requests = 0
        /\ ~proc[c].dup
        /\ proc[c].file0.exists
        /\ FileSize(proc[c].file0) >= proc[c].video.size
        /\ proc[c].video.size > 0
        /\ proc[c].progress.status = "completed"
        /\ files[FilePath(proc[c].dir, proc[c].video)] = proc[c].file0

\* C30 as stated: whatever the free space, the call over a complete file returns at
\* once, completed.
C30_AsStated ==
    [][\A p \in Procs : CalledOverCompleteFile(p) => ReturnedAtOnce(p)]_vars

\* a step in which CancelledError is delivered to task t inside _download_file
CancelledInTransfer(t) ==
    /\ proc[t].pc \in {"requesting", "streaming"}
    /\ ~proc[t].interrupted
    /\ proc'[t].interrupted

\* C31: when a transfer is cancelled inside _download_file (during the request or
\* between two chunks), _download_file leaves with the progress status "paused",
\* DownloadInterruptedError is raised, and no file is changed: the bytes already
\* written stay in the partial file, with resume enabled or disabled.
C31_CancelledTransferPaused ==
    [][\A t \in Tasks :
          CancelledInTransfer(t) =>
             /\ proc'[t].at_raise = "paused"
             /\ proc'[t].err = "DownloadInterruptedError"
             /\ files' = files]_vars

\* a transfer was cancelled after its first byte was written, with resume disabled:
\* the one-byte partial file is still there
C31_Witness ==
    \E t \in Tasks :
        /\ ~options.resume_enabled
        /\ proc[t].interrupted
        /\ proc[t].at_raise = "paused"
        /\ proc[t].err = "DownloadInterruptedError"
        /\ ~proc[t].file0.exists
        /\ proc[t].video.size = MaxSize
        /\ files[FilePath(proc[t].dir, proc[t].video)] = File(Content(1))


\* C32 (as claimed): with resume disabled, a course task whose target file already
\* exists issues a request (the fresh transfer) before its download_video call
\* returns.
C32_ExistingOverwritten ==
    \A t \in Tasks :
        (/\ ~options.resume_enabled
         /\ proc[t].pc = "done"
         /\ proc[t].file0.exists)
        => proc[t].requests >= 1


\* C33 (as claimed): during download_course no two tasks have the same destination
\* file open for writing at the same time.
C33_OneWriterPerPath ==
    \A t1, t2 \in Tasks :
        (t1 # t2 /\ proc[t1].pc = "streaming" /\ proc[t2].pc = "streaming")
        => Path(t1) # Path(t2)


\* a returned call every attempt of which failed
FailedEveryAttempt ==
    /\ backoff # Unused
    /\ backoff.pc = "returned"
    /\ backoff.status = "failed"

\* the delays slept so far never decrease
NonDecreasing(sleeps) == \A k \in 1..(Len(sleeps) - 1) : sleeps[k] <= sleeps[k + 1]

\* the sleeps of a call that failed max_retries + 1 times: one after each attempt
\* but the last, the one after attempt k being min(base * factor^k, max_delay)
ScheduleAsComputed ==
    LET c == backoff.config
    IN  /\ backoff.failures = c.max_retries + 1
        /\ Len(backoff.sleeps) = c.max_retries
        /\ \A k \in 0..(c.max_retries - 1) :
              /\ backoff.sleeps[k + 1] =
                    (IF c.base_delay * Pow(c.backoff_factor, k) <= c.max_delay
                     THEN c.base_delay * Pow(c.backoff_factor, k) ELSE c.max_delay)
              /\ backoff.sleeps[k + 1] <= c.max_delay

\* C34 (amended): for a video that fails on every attempt with max_retries = R,
\* download_video_with_retry sleeps exactly R times, the sleep after failed attempt
\* k (k = 0..R-1) being min(base_delay * backoff_factor^k, max_delay); no delay
\* exceeds max_delay, there is no sleep after the final attempt, and the delays are
\* non-decreasing when base_delay >= 0 and backoff_factor >= 1.
C34_BackoffSchedule ==
    FailedEveryAttempt =>
        /\ ScheduleAsComputed
        /\ (backoff.config.base_delay >= 0 /\ backoff.config.backoff_factor >= 1)
              => NonDecreasing(backoff.sleeps)

\* three retries with base 1, factor 2 and cap 3: the call slept 1, 2, 3 and returned
\* failed after the fourth attempt
C34_Witness ==
    /\ FailedEveryAttempt
    /\ backoff.config = [max_retries |-> 3, base_delay |-> 1, backoff_factor |-> 2,
                         max_delay |-> 3]
    /\ backoff.sleeps = <<1, 2, 3>>
    /\ backoff.attempt = 3

\* C34 as stated: the delays are non-decreasing for every retry configuration.
C34_AsStated ==
    FailedEveryAttempt => (ScheduleAsComputed /\ NonDecreasing(backoff.sleeps))


\* C35 (as claimed): after an attempt of download_video_with_retry raised
\* DiskSpaceError the call neither sleeps for another attempt nor returns a progress
\* to its caller.
C35_DiskSpaceErrorPropagates ==
    \A p \in Retriers :
        proc[p].err = "DiskSpaceError" => proc[p].pc \notin {"sleeping", "loop", "returned"}


\* the HEAD probe gives no size: it fails, or its response has no content-length
HeadGivesNoSize == sizing.head.raises \/ ~sizing.head.header.present

\* the range GET answers "Content-Range: bytes 0-0/S" with a number S
GetGivesSize ==
    /\ ~sizing.get.raises
    /\ sizing.get.header.present
    /\ sizing.get.header.numeric

\* C36 (as claimed): whenever the HEAD probe gives no size and the range GET answers
\* with a total S, _get_content_size returns S.
C36_FallbackGivesSize ==
    (/\ sizing # Unused
     /\ sizing.pc = "returned"
     /\ HeadGivesNoSize
     /\ GetGivesSize)
    => sizing.result = sizing.get.header.value


\* a step that is a GET of url with caching enabled
CachedGet(url) ==
    /\ client'.calls = client.calls + 1
    /\ client'.last.method = "GET"
    /\ client'.last.url = url
    /\ client'.last.use_cache

\* the cache holds an entry for url that has not expired
FreshEntry(url) ==
    /\ client.cache[url].exists
    /\ client.now <= client.cache[url].expires_at

\* C37 (as claimed): a GET with caching enabled of a url whose 200 response is in the
\* cache and has not expired returns the cached data without sending a request; a
\* response with another status leaves the cache without a new entry.
C37_CachedGetSendsNothing ==
    [][client # Unused =>
         \A url \in ApiUrls :
            /\ (FreshEntry(url) /\ CachedGet(url)) =>
                  /\ client'.requests = client.requests
                  /\ client'.last.result = client.cache[url].response
            /\ (client'.calls = client.calls + 1 /\ client'.last.sent
                  /\ client'.last.status # 200 /\ client'.cache[url].exists)
               => client'.cache[url] = client.cache[url]]_vars


\* C38: the permits of download_semaphore are conserved: the value of the semaphore
\* plus the number of downloads inside "async with self.download_semaphore" is
\* concurrent_downloads in every state, whatever way the downloads ended (completed,
\* failed, DiskSpaceError raised, cancelled); so once download_course has returned
\* and process_download_queue is not inside a download, every permit is available.
C38_PermitsConserved ==
    /\ download_semaphore + Cardinality(Inflight) = options.concurrent_downloads
    /\ (/\ cpc \in {"returned", "cancelled"}
        /\ proc[Worker].pc \in {"idle", "loop", "waiting", "returned"})
       => download_semaphore = options.concurrent_downloads

\* a cancelled download_course has ended with one task that raised DiskSpaceError and
\* one interrupted in its transfer, and both permits are back
C38_Witness ==
    /\ cpc = "cancelled"
    /\ options.concurrent_downloads = 2
    /\ download_semaphore = 2
    /\ \E t1, t2 \in Tasks :
         /\ proc[t1].pc = "raised"
         /\ proc[t1].err = "DiskSpaceError"
         /\ proc[t2].interrupted
         /\ proc[t2].pc = "done"


\* C39 (as claimed): when download_course has returned after running its tasks,
\* video_progress has as many entries as the tasks counted videos completed or
\* failed.
C39_OneProgressPerVideo ==
    (cpc = "returned" /\ \E t \in Tasks : proc[t].pc = "done")
    => Cardinality(DOMAIN course_progress.video_progress)
          = course_progress.completed_videos + course_progress.failed_videos

====
